---- MODULE Spec2Model ----
(***************************************************************************)
(* AquaWatch: the risk-modelling and time-series engine.                   *)
(*                                                                         *)
(* The Python code computes in IEEE doubles.  Here every real quantity is  *)
(* a scaled integer (fixed point); the scale of each quantity is named in  *)
(* its comment:                                                            *)
(*     scores, risk scores      milli-points   (1000 = 1.0 point)          *)
(*     returned risk scores     tenths          (round(x, 1))              *)
(*     fractions, factors       milli           (1000 = 1.0)               *)
(*     growth rate mu           micro per day   (1000000 = 1.0 / day)      *)
(*     logarithms, exponents    micro           (1000000 = 1.0)            *)
(*     exp / sqrt mantissas     2^14            (16384 = 1.0)              *)
(* Divisions round toward minus infinity (\div) where the double would     *)
(* round to nearest; round(x, k) is modelled as round-half-even.           *)
(***************************************************************************)
EXTENDS Integers, Sequences, FiniteSets, TLC

(***************************************************************************)
(* Numeric helpers (numpy / math / scipy primitives the code calls)        *)
(***************************************************************************)

\* An optional value: python None is the empty tuple, a present value v the
\* one-element tuple <<v>>
None == <<>>

Some(v) == <<v>>

Val(o) == o[1]

\* np.clip(x, lo, hi)
Clip(x, lo, hi) == IF x < lo THEN lo ELSE IF x > hi THEN hi ELSE x

Min2(a, b) == IF a <= b THEN a ELSE b

Max2(a, b) == IF a >= b THEN a ELSE b

Abs(a) == IF a < 0 THEN -a ELSE a

\* 2^14, the unit of the binary fixed point used by Exp14 and LnMicro
ONE14 == 2^14

\* ln 2 in micro units (math.log(2))
LN2_MICRO == 693147

\* x / d rounded half-to-even (python round() on an exact tie), d > 0
RoundDiv(x, d) ==
    LET q == x \div d
        r == x % d
    IN  IF 2 * r > d THEN q + 1
        ELSE IF 2 * r < d THEN q
        ELSE IF q % 2 = 0 THEN q ELSE q + 1

\* floor(a * m / d) without forming a * m when a is large; a >= 0, d > 0,
\* requires (d - 1) * m and (a \div d) * m to fit in 32 bits
MulDiv(a, m, d) == (a \div d) * m + ((a % d) * m) \div d

\* a / d rounded to nearest (d > 0)
NDiv(a, d) == (a + d \div 2) \div d

\* e^r for 0 <= r < ln 2, r and the result in units of 2^-14:
\* Horner form of the Taylor series to the 8th power
ExpFrac14(r14) ==
    LET h(t, k) == ONE14 + NDiv(r14 * t, k * ONE14)
    IN  h(h(h(h(h(h(h(h(ONE14, 8), 7), 6), 5), 4), 3), 2), 1)

\* np.exp / math.exp: e^x times 2^14, x in micro units, x <= 11.5
\* (range reduction x = m ln 2 + r, then 2^m e^r)
Exp14(x) ==
    LET m   == x \div LN2_MICRO
        r   == x - m * LN2_MICRO
        r14 == NDiv(r * 256, 15625)
        er  == ExpFrac14(r14)
    IN  IF m >= 0 THEN er * 2^m ELSE NDiv(er, 2^(-m))

\* floor(log2 n) for n >= 1
RECURSIVE Log2Floor(_)
Log2Floor(n) == IF n < 2 THEN 0 ELSE 1 + Log2Floor(n \div 2)

\* np.log / math.log: ln(n / 1000) in micro units, n >= 1 an integer number
\* of thousandths (n = 2^e m, 1 <= m < 2; ln m = 2 atanh((m-1)/(m+1)),
\* the series in units of 2^-16)
LnMicro(n) ==
    LET e    == Log2Floor(n)
        m14  == IF e <= 14 THEN n * 2^(14 - e) ELSE NDiv(n, 2^(e - 14))
        z    == NDiv((m14 - ONE14) * 2^16, m14 + ONE14)
        z2   == NDiv(z * z, 2^16)
        h(t, k) == NDiv(2^16, k) + NDiv(z2 * t, 2^16)
        s    == h(h(h(h(h(NDiv(2^16, 11), 9), 7), 5), 3), 1)
        lnm  == NDiv(z * s, 2^15)
    IN  e * LN2_MICRO + NDiv(lnm * 15625, 1024) - 6907755

\* floor(sqrt(n)) for n >= 0, by bisection on [lo, hi]
RECURSIVE SqrtBisect(_, _, _)
SqrtBisect(n, lo, hi) ==
    IF lo >= hi THEN lo
    ELSE LET mid == (lo + hi + 1) \div 2
         IN  IF mid * mid <= n THEN SqrtBisect(n, mid, hi)
             ELSE SqrtBisect(n, lo, mid - 1)

\* np.sqrt on a non-negative integer, floor
ISqrt(n) == SqrtBisect(n, 0, Min2(n, 46340))

(***************************************************************************)
(* State.  Every core operation is a function of its arguments; a          *)
(* component's variables hold the arguments of one call (None while the    *)
(* component is not under analysis) and the dict the call returned with    *)
(* the locals the claims speak about (None before the call).               *)
(***************************************************************************)
VARIABLES
    agg_in,     \* arguments of the two risk aggregators
    prob_out,   \* result of compute_bloom_probability
    risk_out,   \* result of calculate_bloom_risk
    fc_in,      \* arguments of build_7day_forecast: raw daily arrays, current_risk
    fc_out,     \* result of build_7day_forecast
    gr_in,      \* arguments of compute_growth_rate
    gr_out,     \* result of compute_growth_rate
    tr_in,      \* the series handed to compute_trend and mann_kendall_test
    tr_out,     \* result of compute_trend
    mk_out,     \* result of mann_kendall_test
    sen_out,    \* result of sens_slope
    ce_in,      \* a pair of risk scores handed to _estimate_cells
    ce_out,     \* the pair of cell estimates
    pa_in,      \* arguments of build_predictive_alerts
    pa_out,     \* result of build_predictive_alerts
    cb_in,      \* arguments of compute_confidence_bands, as they were at the call
    cb_forecast, \* the caller's forecast dict, which the calls are handed
    cb_out,     \* the dict compute_confidence_bands returned
    cb_alerts,  \* result of build_predictive_alerts on the caller's forecast
    pl_raw,     \* the raw input dict of the scoring chain
    pl_now,     \* the wall clock: what datetime.now() returns
    pl_runs,    \* results of the runs of the chain on pl_raw, in order
    hs_in,      \* raw["historical_temp"] with the current temperature and score
    hs_seasonal, \* result of _compute_seasonal_anomaly_via_tf
    hs_comparison, \* result of build_historical_comparison
    hs_trend,   \* the trend series with the results of the trend tests on it
    fd_in, \* the current risk and two forecast days that differ in one weather input
    fd_out, \* the own computed scores of the two days
    cs_in, \* light features with two cloud covers in percent, the second the larger
    cs_out, \* the cloud factors and light scores under the two covers
    sc_in, \* a sub-scorer and the feature dict it is handed
    sc_out, \* what the sub-scorer returned or raised
    dp_errors, \* self.errors of a DataPipeline instance: the sources with a recorded error
    dp_results, \* the data_quality of each fetch_all on the instance, in order
    cy_cache, \* self.cache of a CyFiClient: cache key to cached prediction
    cy_now, \* the wall clock in seconds: what time.time() returns
    cy_call \* the last get_cyfi_prediction call: arguments, cache before, what it did and returned

risk_vars == <<agg_in, prob_out, risk_out>>

forecast_vars == <<fc_in, fc_out>>

growth_vars == <<gr_in, gr_out>>

trend_vars == <<tr_in, tr_out, mk_out, sen_out>>

cells_vars == <<ce_in, ce_out>>

alerts_vars == <<pa_in, pa_out>>

bands_vars == <<cb_in, cb_forecast, cb_out, cb_alerts>>

pipeline_vars == <<pl_raw, pl_now, pl_runs>>

history_vars == <<hs_in, hs_seasonal, hs_comparison, hs_trend>>

day_vars == <<fd_in, fd_out>>

cloud_vars == <<cs_in, cs_out>>

scorer_vars == <<sc_in, sc_out>>

data_vars == <<dp_errors, dp_results>>

cyfi_vars == <<cy_cache, cy_now, cy_call>>

vars == <<risk_vars, forecast_vars, growth_vars, trend_vars, cells_vars, alerts_vars, bands_vars, pipeline_vars, history_vars, day_vars, cloud_vars, scorer_vars, data_vars, cyfi_vars>>

RiskIdle == agg_in = None /\ prob_out = None /\ risk_out = None

ForecastIdle == fc_in = None /\ fc_out = None

GrowthIdle == gr_in = None /\ gr_out = None

TrendIdle == tr_in = None /\ tr_out = None /\ mk_out = None /\ sen_out = None

CellsIdle == ce_in = None /\ ce_out = None

AlertsIdle == pa_in = None /\ pa_out = None

BandsIdle ==
    cb_in = None /\ cb_forecast = None /\ cb_out = None /\ cb_alerts = None

PipelineIdle == pl_raw = None /\ pl_now = None /\ pl_runs = <<>>

HistoryIdle ==
    hs_in = None /\ hs_seasonal = None /\ hs_comparison = None /\ hs_trend = None

DayIdle == fd_in = None /\ fd_out = None

CloudIdle == cs_in = None /\ cs_out = None

ScorerIdle == sc_in = None /\ sc_out = None

DataIdle == dp_errors = {} /\ dp_results = <<>>

CyfiIdle == cy_cache = None /\ cy_now = 0 /\ cy_call = None

(***************************************************************************)
(* Risk Aggregation Engine: src/models/bloom_probability_model.py          *)
(***************************************************************************)

\* weights of both aggregators, in hundredths
weights == [temperature |-> 30, nutrients |-> 25, stagnation |-> 20,
            light |-> 10, growth |-> 15]

\* round(float(risk_score), 1): milli-points to tenths
Round1(milli) == RoundDiv(milli, 100)

\* np.clip(mu / 1.2 * 100, 0, 100) in milli-points; mu in 1e-4 per day
GrowthScore(mu) == Clip((mu * 25) \div 3, 0, 100000)

\* a clamp without the lower bound
ClipRiskHighOnly(score, one) == Min2(score, 100 * one)

\* np.clip(score, 0, 100), the final clamp of both aggregators; one is the
\* number of units of score in a point
ClipRisk(score, one) == Clip(score, 0, 100 * one)

\* a classifier whose first band includes its upper bound
_classify_risk_inclusive(score) ==
    IF score <= 250 THEN "SAFE"
    ELSE IF score < 500 THEN "LOW"
    ELSE IF score < 750 THEN "WARNING"
    ELSE "CRITICAL"

\* _classify_risk; score in tenths
_classify_risk(score) ==
    IF score < 250 THEN "SAFE"
    ELSE IF score < 500 THEN "LOW"
    ELSE IF score < 750 THEN "WARNING"
    ELSE "CRITICAL"

\* a cell estimate on a base of 10 cells/mL and without the clip
_estimate_cells_base10(risk_score) ==
    MulDiv(Exp14(risk_score * 11500), 10, ONE14)

\* a cell estimate with the exponent 0.116 per point
_estimate_cells_steep(risk_score) ==
    Clip(MulDiv(Exp14(risk_score * 11600), 100, ONE14), 100, 20000000)

\* _estimate_cells; risk_score in tenths, result int(np.clip(cells, 100, 2e7))
_estimate_cells(risk_score) ==
    Clip(MulDiv(Exp14(risk_score * 11500), 100, ONE14), 100, 20000000)

\* a WHO bucketing whose first breakpoint is 10,000 cells
_who_severity_10k(cells) ==
    IF cells < 10000 THEN "low_risk"
    ELSE IF cells < 100000 THEN "moderate_risk"
    ELSE IF cells < 10000000 THEN "high_risk"
    ELSE "very_high_risk"

\* _who_severity
_who_severity(cells) ==
    IF cells < 20000 THEN "low_risk"
    ELSE IF cells < 100000 THEN "moderate_risk"
    ELSE IF cells < 10000000 THEN "high_risk"
    ELSE "very_high_risk"

\* the CyFi satellite adjustment of compute_bloom_probability, in points
CyfiAdj(cyfi) ==
    IF cyfi = None THEN 0
    ELSE IF Val(cyfi) > 100000 THEN 15
    ELSE IF Val(cyfi) > 20000 THEN 8
    ELSE IF Val(cyfi) > 5000 THEN 3
    ELSE 0

\* compute_bloom_probability; sub-scores in tenths, mu in 1e-4 per day,
\* cyfi the optional satellite cells_per_mL.  base_score is kept in units of
\* 1e-5 point (weights in hundredths times milli-points).
compute_bloom_probability(t_score, n_score, s_score, l_score, mu, cyfi) ==
    LET growth_score == GrowthScore(mu)
        base_score   == weights.temperature * (100 * t_score)
                        + weights.nutrients * (100 * n_score)
                        + weights.stagnation * (100 * s_score)
                        + weights.light * (100 * l_score)
                        + weights.growth * growth_score
        cyfi_adj     == CyfiAdj(cyfi)
        risk_score   == RoundDiv(ClipRisk(base_score + cyfi_adj * 100000,
                                          100000), 10000)
        cells_per_ml == _estimate_cells(risk_score)
    IN  [risk_score             |-> risk_score,
         risk_level             |-> _classify_risk(risk_score),
         who_severity           |-> _who_severity(cells_per_ml),
         estimated_cells_per_ml |-> cells_per_ml,
         growth_score           |-> Round1(growth_score)]

\* an interaction boost that already applies at a score of exactly 60
InteractionBoostInclusive(temperature_score, nutrient_score) ==
    IF temperature_score >= 600 /\ nutrient_score >= 600
    THEN 10 * Min2(temperature_score, nutrient_score)
    ELSE 0

\* the interaction boost of calculate_bloom_risk in milli-points:
\* 0.10 * min(temperature_score, nutrient_score) when both exceed 60
InteractionBoost(temperature_score, nutrient_score) ==
    IF temperature_score > 600 /\ nutrient_score > 600
    THEN 10 * Min2(temperature_score, nutrient_score)
    ELSE 0

\* weighted geometric mean exp(sum w_i ln s_i), scores and result in
\* milli-points
GeoMean(scores) ==
    LET log_sum == (weights.temperature * LnMicro(scores.temperature)
                    + weights.nutrients * LnMicro(scores.nutrients)
                    + weights.stagnation * LnMicro(scores.stagnation)
                    + weights.light * LnMicro(scores.light)
                    + weights.growth * LnMicro(scores.growth)) \div 100
    IN  MulDiv(Exp14(log_sum), 1000, ONE14)

\* calculate_bloom_risk; sub-scores in tenths, growth_rate_mu in 1e-4 per day
calculate_bloom_risk(temperature_score, nutrient_score, stagnation_score, light_score, growth_rate_mu) ==
    LET growth_score == GrowthScore(growth_rate_mu)
        scores == [temperature |-> Clip(100 * temperature_score, 1, 100000),
                   nutrients   |-> Clip(100 * nutrient_score, 1, 100000),
                   stagnation  |-> Clip(100 * stagnation_score, 1, 100000),
                   light       |-> Clip(100 * light_score, 1, 100000),
                   growth      |-> Clip(growth_score, 1, 100000)]
        geo_mean          == GeoMean(scores)
        interaction_boost == InteractionBoost(temperature_score, nutrient_score)
        pre_clamp         == geo_mean + interaction_boost
        risk_score        == Round1(ClipRisk(pre_clamp, 1000))
        cells_per_ml      == _estimate_cells(risk_score)
    IN  [risk_score             |-> risk_score,
         risk_level             |-> _classify_risk(risk_score),
         who_level              |-> _who_severity(cells_per_ml),
         estimated_cells_per_ml |-> cells_per_ml,
         interaction_boost      |-> interaction_boost,
         geo_mean               |-> geo_mean,
         pre_clamp              |-> pre_clamp]

\* sub-score arguments in tenths: below, inside and above 0..100, and both
\* sides of the interaction threshold 60
TNScoreVals == {-50, 0, 250, 500, 600, 601, 700, 750, 1200}

SLScoreVals == {0, 250, 500, 750, 1200}

\* growth rates in 1e-4 per day (negative, in range, above MU_MAX)
MuVals == {-1000, 0, 2920, 3000, 5920, 6000, 8920, 9000, 15000}

\* satellite cells_per_mL (None, and around the three breakpoints)
CyfiVals == {None, Some(5000), Some(20001), Some(100001)}

InitRisk ==
    /\ \E a \in [t : TNScoreVals, n : TNScoreVals, s : SLScoreVals,
                  l : SLScoreVals, mu : MuVals, cyfi : CyfiVals] :
           agg_in = Some(a)
    /\ prob_out = None
    /\ risk_out = None
    /\ ForecastIdle /\ GrowthIdle /\ TrendIdle /\ CellsIdle /\ AlertsIdle /\ BandsIdle /\ PipelineIdle /\ HistoryIdle /\ DayIdle /\ CloudIdle /\ ScorerIdle /\ DataIdle /\ CyfiIdle

ComputeBloomProbability ==
    /\ agg_in # None
    /\ prob_out = None
    /\ LET a == Val(agg_in)
       IN  prob_out' = Some(compute_bloom_probability(a.t, a.n, a.s, a.l,
                                                      a.mu, a.cyfi))
    /\ UNCHANGED <<agg_in, risk_out, forecast_vars, growth_vars, trend_vars, cells_vars, alerts_vars, bands_vars, pipeline_vars, history_vars, day_vars, cloud_vars, scorer_vars, data_vars, cyfi_vars>>

CalculateBloomRisk ==
    /\ agg_in # None
    /\ risk_out = None
    /\ LET a == Val(agg_in)
       IN  risk_out' = Some(calculate_bloom_risk(a.t, a.n, a.s, a.l, a.mu))
    /\ UNCHANGED <<agg_in, prob_out, forecast_vars, growth_vars, trend_vars, cells_vars, alerts_vars, bands_vars, pipeline_vars, history_vars, day_vars, cloud_vars, scorer_vars, data_vars, cyfi_vars>>

NextRisk == ComputeBloomProbability \/ CalculateBloomRisk

SpecRisk == InitRisk /\ [][NextRisk]_vars

(***************************************************************************)
(* Forecast Engine: src/analysis/forecast_engine.py                        *)
(* Temperatures, precipitation and wind are in tenths of their unit; a     *)
(* list element is optional (None where the feed has a gap).  Dates are    *)
(* day numbers.                                                            *)
(***************************************************************************)

\* lst[slc]: forecast_slice is slice(-n, None) when the feed holds more than
\* 7 dates (fromEnd) and slice(0, n) otherwise
PySlice(lst, fromEnd, n) ==
    IF fromEnd
    THEN SubSeq(lst, Max2(1, Len(lst) - n + 1), Len(lst))
    ELSE SubSeq(lst, 1, Min2(n, Len(lst)))

\* [default] * n
Repeat(default, n) == [i \in 1..n |-> default]

\* a _safe_slice that pads to the 7 forecast days
_safe_slice_pad7(lst, fromEnd, n, default) ==
    LET result == PySlice(lst, fromEnd, n)
        filled == [i \in 1..Len(result) |->
                      IF result[i] = None THEN default ELSE Val(result[i])]
    IN  IF lst = <<>> THEN Repeat(default, 7)
        ELSE filled \o Repeat(default, Max2(0, 7 - Len(filled)))

\* _safe_slice: slice, replace None by the default, pad to n
_safe_slice(lst, fromEnd, n, default) ==
    LET result == PySlice(lst, fromEnd, n)
        filled == [i \in 1..Len(result) |->
                      IF result[i] = None THEN default ELSE Val(result[i])]
    IN  IF lst = <<>> THEN Repeat(default, n)
        ELSE filled \o Repeat(default, Max2(0, n - Len(filled)))

\* python "v or d" on a number: a zero is falsy
PyOr(v, d) == IF v = 0 THEN d ELSE v

\* the three weather factors, each np.clip(..., 0, 1), in millionths
TempFactor(t_max, t_min) ==
    Clip((PyOr(t_max, 200) + PyOr(t_min, 100) - 300) * 2500, 0, 1000000)

RainFactor(p_sum) == Clip(1000000 - 5000 * PyOr(p_sum, 0), 0, 1000000)

WindFactor(w_max) ==
    Clip(1000000 - (10000 * PyOr(w_max, 100)) \div 3, 0, 1000000)

\* a day's own projected score, in millionths of a point; current_risk in
\* tenths
OwnProjected(current_risk, t_max, t_min, p_sum, w_max) ==
    (100000 * current_risk
     + (40 * TempFactor(t_max, t_min) + 15 * RainFactor(p_sum)
        + 10 * WindFactor(w_max))) \div 2

\* a projection loop in which no day looks at the day before
ProjectScoresNoMomentum(current_risk, t_max, t_min, p_sum, w_max, k) ==
    [i \in 1..k |->
        RoundDiv(Clip(OwnProjected(current_risk, t_max[i], t_min[i], p_sum[i],
                                   w_max[i]), 0, 100000000), 100000)]

\* the projection loop: risk_scores (tenths) after the first k days
RECURSIVE ProjectScores(_, _, _, _, _, _)
ProjectScores(current_risk, t_max, t_min, p_sum, w_max, k) ==
    IF k = 0 THEN <<>>
    ELSE LET prev == ProjectScores(current_risk, t_max, t_min, p_sum, w_max,
                                   k - 1)
             own  == OwnProjected(current_risk, t_max[k], t_min[k], p_sum[k],
                                  w_max[k])
             projected == IF k > 1
                          THEN (own * 7 + (100000 * prev[k - 1]) * 3) \div 10
                          ELSE own
         IN  Append(prev, RoundDiv(Clip(projected, 0, 100000000), 100000))

\* "while len(risk_scores) < 7: append(last or current_risk)"
PadScores(risk_scores, current_risk) ==
    risk_scores \o
    Repeat(IF risk_scores = <<>> THEN current_risk
           ELSE risk_scores[Len(risk_scores)],
           Max2(0, 7 - Len(risk_scores)))

\* lst[:7]
Head7(lst) == SubSeq(lst, 1, Min2(7, Len(lst)))

\* build_7day_forecast; daily holds the six arrays of raw.weather.daily
\* (an absent key or an absent weather dict is the empty list), today is
\* datetime.now()
build_7day_forecast(daily, current_risk, today) ==
    LET dates_raw == daily.time
        n         == Min2(7, Len(dates_raw))
        fromEnd   == Len(dates_raw) > 7
        sliced    == PySlice(dates_raw, fromEnd, n)
        t_max     == _safe_slice(daily.temperature_2m_max, fromEnd, n, 200)
        t_min     == _safe_slice(daily.temperature_2m_min, fromEnd, n, 100)
        p_sum     == _safe_slice(daily.precipitation_sum, fromEnd, n, 0)
        w_max     == _safe_slice(daily.wind_speed_10m_max, fromEnd, n, 100)
        u_max     == _safe_slice(daily.uv_index_max, fromEnd, n, 30)
        dates     == IF Len(sliced) < 7
                     THEN [i \in 1..7 |-> today + (i - 1)]
                     ELSE sliced
        risk_scores == PadScores(
                           ProjectScores(current_risk, t_max, t_min, p_sum,
                                         w_max, Min2(7, Len(t_max))),
                           current_risk)
    IN  [dates       |-> Head7(dates),
         risk_scores |-> Head7(risk_scores),
         temp_max    |-> Head7(t_max),
         temp_min    |-> Head7(t_min),
         precip      |-> Head7(p_sum),
         wind_max    |-> Head7(w_max),
         uv_max      |-> Head7(u_max)]

\* the longest raw daily feed considered (Open-Meteo: past days + forecast)
MaxRawDays == 10

\* the value the feed holds for a field on day i under weather scenario k:
\* scenario 1 is warm, dry and calm; scenario 2 is cool, wet and windy, with
\* a gap (None) on every third day and zeros on every fourth
DailyValue(field, k, i) ==
    IF k = 2 /\ i % 3 = 0 THEN None
    ELSE IF k = 2 /\ i % 4 = 0 THEN Some(0)
    ELSE Some(CASE field = "temperature_2m_max" -> (IF k = 1 THEN 280 ELSE 140) + 5 * i
                [] field = "temperature_2m_min" -> (IF k = 1 THEN 190 ELSE 60) + 5 * i
                [] field = "precipitation_sum"  -> (IF k = 1 THEN 0 ELSE 30 * i)
                [] field = "wind_speed_10m_max" -> (IF k = 1 THEN 50 ELSE 200) + 10 * i
                [] OTHER                        -> (IF k = 1 THEN 70 ELSE 20))

\* a daily array of the given length
DailyArray(field, k, len) == [i \in 1..len |-> DailyValue(field, k, i)]

\* lengths an array may have beside nd dates: absent, shorter, equal, longer
ArrayLens(nd) == {0, nd - 1, nd, nd + 1} \cap 0..(MaxRawDays + 1)

\* the current risk scores (tenths) a forecast starts from
CurrentRiskVals == {0, 437, 1000}

\* wall-clock days datetime.now() may return
TodayVals == {100, 101}

InitForecast ==
    /\ \E nd \in 0..MaxRawDays, k \in 1..2, cur \in CurrentRiskVals :
       \E l1, l2, l3, l4, l5 \in ArrayLens(nd) :
           fc_in = Some([daily |->
                            [time |-> [i \in 1..nd |-> 200 + i],
                             temperature_2m_max |-> DailyArray("temperature_2m_max", k, l1),
                             temperature_2m_min |-> DailyArray("temperature_2m_min", k, l2),
                             precipitation_sum  |-> DailyArray("precipitation_sum", k, l3),
                             wind_speed_10m_max |-> DailyArray("wind_speed_10m_max", k, l4),
                             uv_index_max       |-> DailyArray("uv_index_max", k, l5)],
                         current_risk |-> cur])
    /\ fc_out = None
    /\ RiskIdle /\ GrowthIdle /\ TrendIdle /\ CellsIdle /\ AlertsIdle /\ BandsIdle /\ PipelineIdle /\ HistoryIdle /\ DayIdle /\ CloudIdle /\ ScorerIdle /\ DataIdle /\ CyfiIdle

Build7DayForecast ==
    /\ fc_in # None
    /\ fc_out = None
    /\ \E today \in TodayVals :
           fc_out' = Some(build_7day_forecast(Val(fc_in).daily,
                                              Val(fc_in).current_risk, today))
    /\ UNCHANGED <<risk_vars, fc_in, growth_vars, trend_vars, cells_vars, alerts_vars, bands_vars, pipeline_vars, history_vars, day_vars, cloud_vars, scorer_vars, data_vars, cyfi_vars>>

NextForecast == Build7DayForecast

SpecForecast == InitForecast /\ [][NextForecast]_vars

\* C1: every array build_7day_forecast returns has length exactly 7,
\* whatever the lengths of the raw daily arrays.
C1_AllArraysLength7 ==
    fc_out # None =>
        LET f == Val(fc_out)
        IN  /\ Len(f.dates) = 7 /\ Len(f.risk_scores) = 7
            /\ Len(f.temp_max) = 7 /\ Len(f.temp_min) = 7
            /\ Len(f.precip) = 7 /\ Len(f.wind_max) = 7
            /\ Len(f.uv_max) = 7

\* the own computed score (millionths of a point) of day i of the forecast
\* returned, from the weather the forecast reports for that day
OwnOfDay(i) ==
    LET f == Val(fc_out)
    IN  OwnProjected(Val(fc_in).current_risk, f.temp_max[i], f.temp_min[i],
                     f.precip[i], f.wind_max[i])

\* clamp to [0, 100] and round to one decimal: millionths to tenths
Final(projected) == RoundDiv(Clip(projected, 0, 100000000), 100000)

\* C22: the projected score of day 0 is its own computed value; that of a
\* later day i is 0.7 times its own value plus 0.3 times the final score of
\* day i - 1 (after clamp and rounding), itself clamped and rounded; the days
\* without forecast weather carry the last computed score, or current_risk
\* when no day was computed.
C22_Momentum ==
    fc_out # None =>
        LET f  == Val(fc_out)
            sc == f.risk_scores
            k  == Len(f.temp_max)
        IN  /\ Len(sc) = 7
            /\ k <= 7
            /\ k >= 1 => sc[1] = Final(OwnOfDay(1))
            /\ \A i \in 2..k :
                   sc[i] = Final((7 * OwnOfDay(i) + 3 * 100000 * sc[i - 1])
                                 \div 10)
            /\ \A i \in (k + 1)..7 :
                   sc[i] = IF k = 0 THEN Val(fc_in).current_risk ELSE sc[k]

\* C22 witness: three computed days of cool, wet, windy weather from a
\* current risk of 100; the later days are pulled up by the day before and
\* the last four days repeat day 3
C22_Witness ==
    /\ fc_out # None
    /\ Val(fc_in).current_risk = 1000
    /\ Len(Val(fc_out).temp_max) = 3
    /\ Val(fc_out).risk_scores[2] # Final(OwnOfDay(2))
    /\ Val(fc_out).risk_scores[2] # Val(fc_out).risk_scores[3]
    /\ \A i \in 4..7 : Val(fc_out).risk_scores[i] = Val(fc_out).risk_scores[3]

\* C22 witness for the feed without a date: every day is current_risk
C22_WitnessNoDay ==
    /\ fc_out # None
    /\ Val(fc_out).temp_max = <<>>
    /\ Val(fc_out).risk_scores = [i \in 1..7 |-> 437]

\* the weather inputs of a forecast day, in tenths: 0, small values, and
\* values on both sides of the clips of the three factors
DayTempVals == {0, 10, 50, 100, 200, 300, 400}

DayRainVals == {0, 10, 100, 200, 250}

DayWindVals == {0, 10, 100, 300, 350}

\* the forecast days over these inputs
ForecastDays ==
    [t_max : DayTempVals, t_min : DayTempVals, p_sum : DayRainVals,
     w_max : DayWindVals]

\* day b is day a with the one input field raised
RaisedIn(a, b, field) ==
    /\ b[field] > a[field]
    /\ \A g \in DOMAIN a : g # field => b[g] = a[g]

WeatherFields == {"t_max", "t_min", "p_sum", "w_max"}

InitDay ==
    /\ \E cur \in CurrentRiskVals, a \in ForecastDays, b \in ForecastDays :
           /\ \E field \in WeatherFields : RaisedIn(a, b, field)
           /\ fd_in = Some([current_risk |-> cur, a |-> a, b |-> b])
    /\ fd_out = None
    /\ RiskIdle /\ ForecastIdle /\ GrowthIdle /\ TrendIdle /\ CellsIdle /\ AlertsIdle /\ BandsIdle /\ PipelineIdle /\ HistoryIdle /\ CloudIdle /\ ScorerIdle /\ DataIdle /\ CyfiIdle

\* one pass of the loop of build_7day_forecast up to `projected`, before
\* the momentum, on each of the two days
ProjectDay ==
    /\ fd_in # None
    /\ fd_out = None
    /\ LET i == Val(fd_in)
           own(d) == OwnProjected(i.current_risk, d.t_max, d.t_min, d.p_sum,
                                  d.w_max)
       IN  fd_out' = Some([a |-> own(i.a), b |-> own(i.b)])
    /\ UNCHANGED <<risk_vars, forecast_vars, growth_vars, trend_vars, cells_vars, alerts_vars, bands_vars, pipeline_vars, history_vars, fd_in, cloud_vars, scorer_vars, data_vars, cyfi_vars>>

NextDay == ProjectDay

SpecDay == InitDay /\ [][NextDay]_vars

\* C23: a forecast day's own computed score (before the momentum) is
\* monotone in each weather input over all non-negative values, 0
\* included: it never decreases when temp_max or temp_min rises, never
\* increases when the precipitation rises, and never increases when the
\* maximum wind rises (a calmer day, down to wind 0, never scores lower).
C23_MonotoneInWeather ==
    fd_out # None =>
        LET i == Val(fd_in)
            o == Val(fd_out)
        IN  /\ RaisedIn(i.a, i.b, "t_max") => o.b >= o.a
            /\ RaisedIn(i.a, i.b, "t_min") => o.b >= o.a
            /\ RaisedIn(i.a, i.b, "p_sum") => o.b <= o.a
            /\ RaisedIn(i.a, i.b, "w_max") => o.b <= o.a

(***************************************************************************)
(* Growth-Rate (Monod) Engine: src/models/growth_rate_model.py             *)
(* Scores are in units of 1/120 point, so that a fraction score / 100 is   *)
(* the same number in units of 1/12000; mu is in units of 1/120,000,000    *)
(* per day (MU_MAX = 1.2 / day is 12000 * 12000); water_temp in tenths.    *)
(***************************************************************************)

\* MU_MAX = 1.2 per day
MU_MAX == 12000 * 12000

\* the 0.001 per day below which no doubling time is reported
MuThreshold == 120000

\* np.clip(score / 100, 0.01, 1.0)
Fraction(score) == Clip(score, 120, 12000)

\* _arrhenius_correction, in thousandths (cardinal temperature model,
\* t_opt = 28, t_min = 5, t_max = 40; num and den are in 1e-3 degree^3)
_arrhenius_correction(water_temp) ==
    LET t_opt == 280
        t_min == 50
        t_max == 400
        num == (water_temp - t_max) * (water_temp - t_min) * (water_temp - t_min)
        den == (t_opt - t_min) * ((t_opt - t_min) * (water_temp - t_opt)
                                  - (t_opt - t_max) * (t_opt + t_min - 2 * water_temp))
    IN  IF water_temp <= t_min \/ water_temp >= t_max THEN 10
        ELSE IF den = 0 THEN 10
        ELSE Clip(NDiv((Abs(num) \div 100) * 1000, Abs(den) \div 100)
                    * (IF (num < 0) = (den < 0) THEN 1 ELSE -1),
                  10, 1000)

\* a doubling time that is also reported at mu = 0.001 exactly
DoublingTimeInclusive(mu) ==
    IF mu >= MuThreshold THEN Some(RoundDiv(LN2_MICRO * 240, mu \div 120))
    ELSE None

\* doubling_time_hours in tenths of an hour: round(ln 2 / mu * 24, 1) when
\* mu > 0.001, else None (the hours are never 0, so "if doubling_h" holds
\* whenever they were computed)
DoublingTime(mu) ==
    IF mu > MuThreshold THEN Some(RoundDiv(LN2_MICRO * 240, mu \div 120))
    ELSE None

\* the factor names in the insertion order of the factors dict
FactorOrder == <<"Temperature", "Nutrients", "Light", "Stagnation">>

\* a limiting factor that takes the last of several equal minima
LimitingFactorLast(factors) ==
    LET i == CHOOSE k \in 1..4 :
                 /\ \A j \in 1..4 : factors[FactorOrder[k]] <= factors[FactorOrder[j]]
                 /\ \A j \in (k + 1)..4 : factors[FactorOrder[j]] > factors[FactorOrder[k]]
    IN  FactorOrder[i]

\* min(factors, key=factors.get): the first key, in insertion order, whose
\* value no other key undercuts
RECURSIVE MinKeyFrom(_, _, _)
MinKeyFrom(factors, best, k) ==
    IF k > 4 THEN FactorOrder[best]
    ELSE MinKeyFrom(factors,
                    IF factors[FactorOrder[k]] < factors[FactorOrder[best]]
                    THEN k ELSE best,
                    k + 1)

LimitingFactor(factors) == MinKeyFrom(factors, 1, 2)

\* biomass after k days, in thousandths: 1.0 multiplied k times by exp(mu)
Biomass(mu, k) == MulDiv(Exp14(k * (mu \div 120)), 1000, ONE14)

\* compute_growth_rate
compute_growth_rate(t_score, n_score, l_score, s_score, water_temp) ==
    LET f_t == Fraction(t_score)
        f_n == Fraction(n_score)
        f_l == Fraction(l_score)
        f_s == Fraction(s_score)
        temp_correction == _arrhenius_correction(water_temp)
        raw_mu == MulDiv(MulDiv(MulDiv(MulDiv(MulDiv(MU_MAX, f_t, 12000),
                                              f_n, 12000),
                                       f_l, 12000),
                                f_s, 12000),
                         temp_correction, 1000)
        mu == Clip(raw_mu, 0, MU_MAX)
        factors == [Temperature |-> f_t, Nutrients |-> f_n,
                    Light |-> f_l, Stagnation |-> f_s]
    IN  [mu                  |-> mu,
         mu_per_day          |-> RoundDiv(mu, 12000),
         doubling_time_hours |-> DoublingTime(mu),
         limiting_factor     |-> LimitingFactor(factors),
         factor_values       |-> factors,
         biomass_trajectory  |-> [k \in 1..8 |-> Biomass(mu, k - 1)],
         temp_correction     |-> temp_correction]

\* sub-scores in 1/120 point: -5.0, 0.5 and 0.9 (both clamp to the floor
\* 0.01), 8.333..., 8.4, 50.0, 100.0 and 120.0 (clamps to 1.0)
GrowthScoreVals == {-600, 60, 108, 1000, 1008, 6000, 12000, 14400}

\* water temperatures in tenths: at and beyond both cardinal limits, and
\* below, at and above the optimum
WaterTempVals == {40, 50, 150, 280, 330, 400, 450}

InitGrowth ==
    /\ \E a \in [t : GrowthScoreVals, n : GrowthScoreVals, l : GrowthScoreVals,
                 s : GrowthScoreVals, water_temp : WaterTempVals] :
           gr_in = Some(a)
    /\ gr_out = None
    /\ RiskIdle /\ ForecastIdle /\ TrendIdle /\ CellsIdle /\ AlertsIdle /\ BandsIdle /\ PipelineIdle /\ HistoryIdle /\ DayIdle /\ CloudIdle /\ ScorerIdle /\ DataIdle /\ CyfiIdle

ComputeGrowthRate ==
    /\ gr_in # None
    /\ gr_out = None
    /\ LET a == Val(gr_in)
       IN  gr_out' = Some(compute_growth_rate(a.t, a.n, a.l, a.s, a.water_temp))
    /\ UNCHANGED <<risk_vars, forecast_vars, gr_in, trend_vars, cells_vars, alerts_vars, bands_vars, pipeline_vars, history_vars, day_vars, cloud_vars, scorer_vars, data_vars, cyfi_vars>>

NextGrowth == ComputeGrowthRate

SpecGrowth == InitGrowth /\ [][NextGrowth]_vars

\* C7: the reported limiting factor has the smallest of the four fractions
\* clip(score / 100, 0.01, 1), the first in the order Temperature,
\* Nutrients, Light, Stagnation among equal minima, whatever the temperature
\* correction is.
C7_LimitingFactorIsFirstMin ==
    gr_out # None =>
        LET a  == Val(gr_in)
            fr == [Temperature |-> Clip(a.t, 120, 12000),
                   Nutrients   |-> Clip(a.n, 120, 12000),
                   Light       |-> Clip(a.l, 120, 12000),
                   Stagnation  |-> Clip(a.s, 120, 12000)]
            lim == Val(gr_out).limiting_factor
        IN  \E k \in 1..4 :
                /\ lim = FactorOrder[k]
                /\ \A j \in 1..4 : fr[lim] <= fr[FactorOrder[j]]
                /\ \A j \in 1..(k - 1) : fr[FactorOrder[j]] > fr[lim]

\* C7 witness: Nutrients and Stagnation tie for the minimum only through
\* the 0.01 floor, the temperature correction is the smallest number in
\* the product, and Nutrients is reported
C7_Witness ==
    /\ gr_out # None
    /\ Val(gr_in).n = 60 /\ Val(gr_in).s = 108
    /\ Val(gr_in).t > 120 /\ Val(gr_in).l > 120
    /\ Val(gr_out).temp_correction = 10
    /\ Val(gr_out).limiting_factor = "Nutrients"

\* C8 as stated: doubling_time_hours is None exactly when mu < 0.001, and a
\* positive number for every mu >= 0.001.
C8_NullIffBelowThreshold ==
    gr_out # None =>
        LET r == Val(gr_out)
        IN  /\ (r.doubling_time_hours = None) <=> (r.mu < MuThreshold)
            /\ r.mu >= MuThreshold =>
                   (r.doubling_time_hours # None /\ Val(r.doubling_time_hours) > 0)

\* C8 amended: doubling_time_hours is None exactly when mu <= 0.001, and
\* the positive number round(ln 2 / mu * 24, 1) for every mu > 0.001.
C8_NullIffAtMostThreshold ==
    gr_out # None =>
        LET r == Val(gr_out)
        IN  /\ (r.doubling_time_hours = None) <=> (r.mu <= MuThreshold)
            /\ r.mu > MuThreshold =>
                   /\ r.doubling_time_hours # None
                   /\ Val(r.doubling_time_hours) > 0
                   /\ Val(r.doubling_time_hours)
                          = RoundDiv(LN2_MICRO * 240, r.mu \div 120)

\* C8 witness: mu is exactly 0.001 per day and no doubling time is reported
C8_Witness ==
    /\ gr_out # None
    /\ Val(gr_in) = [t |-> 12000, n |-> 12000, l |-> 12000, s |-> 1000,
                     water_temp |-> 50]
    /\ Val(gr_out).mu = MuThreshold
    /\ Val(gr_out).doubling_time_hours = None

(***************************************************************************)
(* Cell-density estimate over pairs of risk scores:                        *)
(* src/models/bloom_probability_model.py, _estimate_cells                  *)
(***************************************************************************)

\* the largest risk score in tenths: np.clip(..., 0, 100) then round(.., 1)
MaxScore == 1000

\* the distances between the two scores of a pair
PairSteps == {1, 10, 100, 500, 1000}

InitCells ==
    /\ \E a \in 0..MaxScore, d \in PairSteps :
           /\ a + d <= MaxScore
           /\ ce_in = Some(<<a, a + d>>)
    /\ ce_out = None
    /\ RiskIdle /\ ForecastIdle /\ GrowthIdle /\ TrendIdle /\ AlertsIdle /\ BandsIdle /\ PipelineIdle /\ HistoryIdle /\ DayIdle /\ CloudIdle /\ ScorerIdle /\ DataIdle /\ CyfiIdle

EstimateCells ==
    /\ ce_in # None
    /\ ce_out = None
    /\ ce_out' = Some(<<_estimate_cells(Val(ce_in)[1]),
                        _estimate_cells(Val(ce_in)[2])>>)
    /\ UNCHANGED <<risk_vars, forecast_vars, growth_vars, trend_vars, ce_in, alerts_vars, bands_vars, pipeline_vars, history_vars, day_vars, cloud_vars, scorer_vars, data_vars, cyfi_vars>>

NextCells == EstimateCells

SpecCells == InitCells /\ [][NextCells]_vars

\* C6: for two risk scores a < b in [0, 100] at 0.1 resolution
\* _estimate_cells(a) <= _estimate_cells(b), and every estimate is an
\* integer in [100, 20,000,000].
C6_CellsMonotoneInRange ==
    ce_out # None =>
        LET a  == Val(ce_in)[1]
            b  == Val(ce_in)[2]
            ca == Val(ce_out)[1]
            cb == Val(ce_out)[2]
        IN  /\ a < b
            /\ ca <= cb
            /\ ca \in 100..20000000
            /\ cb \in 100..20000000

\* C6 witness: the two ends of the score range, with estimates that differ
C6_Witness ==
    /\ ce_out # None
    /\ Val(ce_in) = <<0, MaxScore>>
    /\ Val(ce_out)[1] = 100
    /\ Val(ce_out)[2] > 9000000

\* what the aggregators derive from a risk score and its cell estimate
Derived(risk_score, cells) ==
    [risk_level |-> _classify_risk(risk_score), who |-> _who_severity(cells)]

\* C26: for every risk score in [0, 100] the estimated cells stay below
\* 10,000,000, so the WHO severity is never very_high_risk and the clamp at
\* 20,000,000 is not reached; a risk level of WARNING or CRITICAL (score
\* >= 50) comes with a WHO severity of moderate_risk or higher, and SAFE
\* comes with low_risk.
C26_SeverityFollowsScore ==
    ce_out # None =>
        \A k \in 1..2 :
            LET score == Val(ce_in)[k]
                cells == Val(ce_out)[k]
                d     == Derived(score, cells)
            IN  /\ cells < 10000000
                /\ d.who # "very_high_risk"
                /\ d.risk_level \in {"WARNING", "CRITICAL"}
                       => d.who \in {"moderate_risk", "high_risk"}
                /\ score >= 500 => d.risk_level \in {"WARNING", "CRITICAL"}
                /\ d.risk_level = "SAFE" => d.who = "low_risk"

\* C26 witness: score 50 is WARNING with a moderate_risk estimate, score 100
\* is CRITICAL with a high_risk estimate below 10,000,000
C26_Witness ==
    /\ ce_out # None
    /\ Val(ce_in) = <<500, 1000>>
    /\ Derived(500, Val(ce_out)[1])
           = [risk_level |-> "WARNING", who |-> "moderate_risk"]
    /\ Derived(1000, Val(ce_out)[2])
           = [risk_level |-> "CRITICAL", who |-> "high_risk"]
    /\ Val(ce_out)[2] \in 9000000..9999999

(***************************************************************************)
(* Trend analysis: src/analysis/trend_analysis.py                          *)
(* A series holds integer risk scores.  The OLS quantities are kept as     *)
(* exact integers: with xd[i] = 2 (x[i] - x_mean) and                      *)
(* yd[i] = n (y[i] - y_mean), ss_xx = SXX / 4, ss_xy = SXY / (2 n) and     *)
(* residual i = rn[i] / (n SXX).  Statistics and p-values are in micro     *)
(* units.                                                                  *)
(***************************************************************************)

\* np.sum of f over the index set S
RECURSIVE SetSum(_, _)
SetSum(f, S) ==
    IF S = {} THEN 0
    ELSE LET v == CHOOSE v \in S : TRUE
         IN  f[v] + SetSum(f, S \ {v})

\* floor(a * 2^bits / d) by binary long division, a >= 0, d > 0
RECURSIVE LongDivStep(_, _, _, _)
LongDivStep(q, r, d, bits) ==
    IF bits = 0 THEN q
    ELSE LongDivStep(2 * q + (IF 2 * r >= d THEN 1 ELSE 0),
                     IF 2 * r >= d THEN 2 * r - d ELSE 2 * r,
                     d, bits - 1)

LongDiv(a, d, bits) == LongDivStep(a \div d, a % d, d, bits)

\* a * b for micro-unit a (|a| < 2,100,000) and 0 <= b <= 1,000,000
MulMicro(a, b) == ((a \div 1000) * b) \div 1000 + ((a % 1000) * b) \div 1000000

\* _neutral()
_neutral ==
    [trend |-> "STABLE", slope_num |-> 0, slope_den |-> 1, p |-> 1000000,
     slope_per_day |-> 0, p_value |-> 10000, n |-> 0]

\* a classification that looks at the slope alone
ClassifySlopeOnly(slope_num, slope_den, p) ==
    IF 10 * slope_num > 3 * slope_den THEN "WORSENING"
    ELSE IF 10 * slope_num < -3 * slope_den THEN "IMPROVING"
    ELSE "STABLE"

\* the if / elif / else on slope (= slope_num / slope_den, slope_den > 0)
\* and p_value (micro)
Classify(slope_num, slope_den, p) ==
    IF 10 * slope_num > 3 * slope_den /\ p < 100000 THEN "WORSENING"
    ELSE IF 10 * slope_num < -3 * slope_den /\ p < 100000 THEN "IMPROVING"
    ELSE "STABLE"

\* a t statistic without the guard on a standard error of 0: slope / 0
AbsTStatUnguarded(SXY, SXX, RSS, n) ==
    IF SXY = 0 THEN 0 ELSE 11000000

\* abs(t_stat) in micro units: t_stat^2 = SXY^2 (n - 2) SXX / RSS; 0 when
\* the standard error is 0; values from 11 up are reported as 11
AbsTStat(SXY, SXX, RSS, n) ==
    LET A == SXY * SXY * (n - 2) * SXX
    IN  IF RSS = 0 THEN 0
        ELSE IF A \div 121 >= RSS THEN 11000000
        ELSE MulDiv(ISqrt(LongDiv(A, RSS, 24)), 15625, 64)

\* 2 / (1 + np.exp(abs_t)) in micro units
SigmoidP(abs_t) == NDiv(2048000000, NDiv(ONE14 + Exp14(abs_t), 16))

\* compute_trend
compute_trend(scores) ==
    LET n   == Len(scores)
        sy  == SetSum(scores, 1..n)
        xd  == [i \in 1..n |-> 2 * (i - 1) - (n - 1)]
        yd  == [i \in 1..n |-> n * scores[i] - sy]
        SXX == SetSum([i \in 1..n |-> xd[i] * xd[i]], 1..n)
        SXY == SetSum([i \in 1..n |-> xd[i] * yd[i]], 1..n)
        rn  == [i \in 1..n |-> yd[i] * SXX - SXY * xd[i]]
        RSS == SetSum([i \in 1..n |-> rn[i] * rn[i]], 1..n)
        slope_num == 2 * SXY
        slope_den == n * SXX
        p   == SigmoidP(AbsTStat(SXY, SXX, RSS, n))
    IN  IF n < 3 THEN _neutral
        ELSE IF SXX = 0 THEN _neutral
        ELSE [trend         |-> Classify(slope_num, slope_den, p),
              slope_num     |-> slope_num,
              slope_den     |-> slope_den,
              p             |-> p,
              slope_per_day |-> RoundDiv(1000 * slope_num, slope_den),
              p_value       |-> RoundDiv(p, 100),
              n             |-> n]

\* scipy.stats.norm.cdf(z) for z >= 0 in micro units, z2 = z^2: the
\* complement of the upper tail phi(z) (b1 t + ... + b5 t^5) with
\* t = 1 / (1 + 0.2316419 z); norm.cdf(0) is exactly 0.5
NormCdf(z, z2) ==
    LET t   == NDiv(2000000000, NDiv(2 * (1000000 + MulMicro(z, 231642)), 1000))
        h(acc, c) == MulMicro(acc + c, t)
        poly == h(h(h(h(h(0, 1330274), -1821256), 1781478), -356564), 319382)
        phi == MulDiv(398942, Exp14(-(z2 \div 2)), ONE14)
    IN  IF z = 0 THEN 500000 ELSE 1000000 - MulMicro(phi, poly)

\* the S statistic: concordant minus discordant pairs
SStatistic(x) ==
    LET pairs == {ij \in (1..Len(x)) \X (1..Len(x)) : ij[1] < ij[2]}
    IN  Cardinality({ij \in pairs : x[ij[2]] - x[ij[1]] > 0})
        - Cardinality({ij \in pairs : x[ij[2]] - x[ij[1]] < 0})

\* the tie correction over the groups of equal values
TieCorrection(x) ==
    LET unique == {x[i] : i \in 1..Len(x)}
        counts == [v \in unique |-> Cardinality({i \in 1..Len(x) : x[i] = v})]
        term   == [v \in unique |->
                      IF counts[v] > 1
                      THEN counts[v] * (counts[v] - 1) * (2 * counts[v] + 5)
                      ELSE 0]
    IN  SetSum(term, unique)

\* a trend label that asks for p <= 0.01
MkTrendStrict(p_value, s) ==
    IF p_value <= 10000 THEN (IF s > 0 THEN "increasing" ELSE "decreasing")
    ELSE "no trend"

\* a trend label that does not look at the sign of S
MkTrendUnsigned(p_value, s) ==
    IF p_value <= 50000 THEN "increasing" ELSE "no trend"

\* the trend label at alpha = 0.05
MkTrend(p_value, s) ==
    IF p_value <= 50000 THEN (IF s > 0 THEN "increasing" ELSE "decreasing")
    ELSE "no trend"

\* mann_kendall_test; var_S is kept as 18 var_s
mann_kendall_test(data) ==
    LET n     == Len(data)
        s     == SStatistic(data)
        var18 == n * (n - 1) * (2 * n + 5) - TieCorrection(data)
        z2q   == IF var18 = 0 \/ s = 0 THEN 0
                 ELSE LongDiv(18 * (Abs(s) - 1) * (Abs(s) - 1), var18, 26)
        abs_z == MulDiv(ISqrt(z2q), 15625, 128)
        z2    == MulDiv(z2q \div 64, 15625, 16384)
        p     == 2 * (1000000 - NormCdf(abs_z, z2))
    IN  IF n < 3
        THEN [S |-> 0, var_S |-> 0, z_score |-> 0, p_value |-> 1000000,
              trend |-> "no trend", significant |-> FALSE]
        ELSE [S           |-> s,
              var_S       |-> var18,
              z_score     |-> IF s < 0 THEN -abs_z ELSE abs_z,
              p_value     |-> p,
              trend       |-> MkTrend(p, s),
              significant |-> p <= 50000]

\* the common denominator of the pairwise slopes: index steps 1..6 divide it
SlopeUnit == 60

\* twice np.median of the values of f over the index set S (the middle
\* value, or the mean of the two middle values, of the sorted values)
Median2(f, S) ==
    LET m == Cardinality(S)
        kth(k) == CHOOSE v \in {f[i] : i \in S} :
                      /\ Cardinality({i \in S : f[i] < v}) < k
                      /\ Cardinality({i \in S : f[i] <= v}) >= k
    IN  IF m % 2 = 1 THEN 2 * kth((m + 1) \div 2)
        ELSE kth(m \div 2) + kth(m \div 2 + 1)

\* a pairwise slope that forgets the index step
PairSlopeNoStep(x, i, j) == (x[j] - x[i]) * SlopeUnit

\* (x[j] - x[i]) / dt in units of 1 / SlopeUnit, i < j
PairSlope(x, i, j) == ((x[j] - x[i]) * SlopeUnit) \div (j - i)

\* sens_slope; slope in micro units (round(.., 6)), intercept in 1e-4
\* (round(.., 4)); raised tells whether the call raised an exception,
\* which no path of the function does
sens_slope(data) ==
    LET n      == Len(data)
        pairs  == {ij \in (1..n) \X (1..n) : ij[1] < ij[2]}
        slopes == [ij \in pairs |-> PairSlope(data, ij[1], ij[2])]
        median_slope == Median2(slopes, pairs)
        intercepts   == [i \in 1..n |->
                            2 * SlopeUnit * data[i] - median_slope * (i - 1)]
        median_intercept == Median2(intercepts, 1..n)
    IN  IF n < 2
        THEN [raised |-> FALSE, slope |-> 0,
              intercept |-> IF n = 1 THEN 10000 * data[1] ELSE 0,
              n_slopes |-> 0]
        ELSE IF pairs = {}
        THEN [raised |-> FALSE, slope |-> 0,
              intercept |-> 5000 * Median2(data, 1..n), n_slopes |-> 0]
        ELSE [raised    |-> FALSE,
              slope     |-> RoundDiv(median_slope * 25000, 3),
              intercept |-> RoundDiv(median_intercept * 125, 3),
              n_slopes  |-> Cardinality(pairs)]

\* the longest series
MaxLen == 5

\* the largest score in a series
MaxVal == 4

InitTrend ==
    /\ \E n \in 0..MaxLen : \E y \in [1..n -> 0..MaxVal] : tr_in = Some(y)
    /\ tr_out = None
    /\ mk_out = None
    /\ sen_out = None
    /\ RiskIdle /\ ForecastIdle /\ GrowthIdle /\ CellsIdle /\ AlertsIdle /\ BandsIdle /\ PipelineIdle /\ HistoryIdle /\ DayIdle /\ CloudIdle /\ ScorerIdle /\ DataIdle /\ CyfiIdle

ComputeTrend ==
    /\ tr_in # None
    /\ tr_out = None
    /\ tr_out' = Some(compute_trend(Val(tr_in)))
    /\ UNCHANGED <<risk_vars, forecast_vars, growth_vars, tr_in, mk_out, sen_out, cells_vars, alerts_vars, bands_vars, pipeline_vars, history_vars, day_vars, cloud_vars, scorer_vars, data_vars, cyfi_vars>>

MannKendallTest ==
    /\ tr_in # None
    /\ mk_out = None
    /\ mk_out' = Some(mann_kendall_test(Val(tr_in)))
    /\ UNCHANGED <<risk_vars, forecast_vars, growth_vars, tr_in, tr_out, sen_out, cells_vars, alerts_vars, bands_vars, pipeline_vars, history_vars, day_vars, cloud_vars, scorer_vars, data_vars, cyfi_vars>>

SensSlope ==
    /\ tr_in # None
    /\ sen_out = None
    /\ sen_out' = Some(sens_slope(Val(tr_in)))
    /\ UNCHANGED <<risk_vars, forecast_vars, growth_vars, tr_in, tr_out, mk_out, cells_vars, alerts_vars, bands_vars, pipeline_vars, history_vars, day_vars, cloud_vars, scorer_vars, data_vars, cyfi_vars>>

NextTrend == ComputeTrend \/ MannKendallTest \/ SensSlope

SpecTrend == InitTrend /\ [][NextTrend]_vars

\* the least-squares trend on its own
NextOls == ComputeTrend

SpecOls == InitTrend /\ [][NextOls]_vars

\* the Mann-Kendall test on its own
NextMannKendall == MannKendallTest

SpecMannKendall == InitTrend /\ [][NextMannKendall]_vars

\* the OLS slope of y against 0, 1, ..., n - 1 from the normal equations,
\* as the pair <<numerator, denominator>> with a positive denominator
NormalEquationSlope(y) ==
    LET n   == Len(y)
        sx  == SetSum([i \in 1..n |-> i - 1], 1..n)
        sy  == SetSum(y, 1..n)
        sxy == SetSum([i \in 1..n |-> (i - 1) * y[i]], 1..n)
        sxx == SetSum([i \in 1..n |-> (i - 1) * (i - 1)], 1..n)
    IN  <<n * sxy - sx * sy, n * sxx - sx * sx>>

\* C9: with at least 3 points the trend is WORSENING iff slope > 0.3 and
\* p_value < 0.1, IMPROVING iff slope < -0.3 and p_value < 0.1, and STABLE
\* in every other case; with fewer than 3 points it is STABLE with slope 0
\* and p 1.0.  The slope is the least-squares slope of the series, the
\* p_value the one the call computed, both before rounding.
C9_DualThreshold ==
    tr_out # None =>
        LET y  == Val(tr_in)
            r  == Val(tr_out)
            sl == NormalEquationSlope(y)
            up   == 10 * sl[1] > 3 * sl[2] /\ r.p < 100000
            down == 10 * sl[1] < -3 * sl[2] /\ r.p < 100000
        IN  IF Len(y) < 3
            THEN r.trend = "STABLE" /\ r.slope_per_day = 0 /\ r.p_value = 10000
            ELSE /\ r.slope_num * sl[2] = sl[1] * r.slope_den
                 /\ (r.trend = "WORSENING") <=> up
                 /\ (r.trend = "IMPROVING") <=> down
                 /\ (r.trend = "STABLE") <=> (~up /\ ~down)

\* C9 witness: a slope above 0.3 whose p_value is not below 0.1, reported
\* STABLE
C9_Witness ==
    /\ tr_out # None
    /\ Val(tr_in) = <<0, 0, 1, 1>>
    /\ Val(tr_out).slope_per_day = 400
    /\ Val(tr_out).p >= 100000
    /\ Val(tr_out).trend = "STABLE"

\* the series read from its last value to its first
Reverse(x) == [i \in 1..Len(x) |-> x[Len(x) + 1 - i]]

AllEqual(x) == \A i \in 1..Len(x) : x[i] = x[1]

\* C28: in every result of mann_kendall_test significant is true iff the
\* trend is not "no trend"; the trend is "increasing" only when S > 0 and
\* "decreasing" only when S < 0; the test of the reversed series has -S and
\* the same var_S; a series of equal values, or of fewer than 3 values,
\* gives S = 0, z = 0, p = 1.0 and "no trend".
C28_MannKendallConsistent ==
    mk_out # None =>
        LET x   == Val(tr_in)
            r   == Val(mk_out)
            rev == mann_kendall_test(Reverse(x))
        IN  /\ r.significant <=> (r.trend # "no trend")
            /\ r.trend \in {"increasing", "decreasing", "no trend"}
            /\ r.trend = "increasing" => r.S > 0
            /\ r.trend = "decreasing" => r.S < 0
            /\ rev.S = -r.S
            /\ rev.var_S = r.var_S
            /\ (Len(x) < 3 \/ AllEqual(x)) =>
                   /\ r.S = 0
                   /\ r.z_score = 0
                   /\ r.p_value = 1000000
                   /\ r.trend = "no trend"

\* C28 witness: five falling values with a tie-free S = -10, reported
\* decreasing and significant
C28_Witness ==
    /\ mk_out # None
    /\ Val(tr_in) = <<4, 3, 2, 1, 0>>
    /\ Val(mk_out).S = -10
    /\ Val(mk_out).trend = "decreasing"
    /\ Val(mk_out).significant
    /\ mann_kendall_test(<<0, 1, 2, 3, 4>>).S = 10

\* the points lie on one line: every step equals the first step
ExactlyLinear(y) == \A i \in 1..(Len(y) - 1) : y[i + 1] - y[i] = y[2] - y[1]

\* C27: for a series of at least 3 points whose least-squares residuals are
\* all exactly zero (a constant series or an exactly linear one such as
\* 10, 20, 30, 40), compute_trend takes the guard on a standard error of 0:
\* the t statistic is 0, so p_value is exactly 1.0, and the trend is STABLE
\* whatever the slope, which is the step of the series.
C27_ZeroResidualsStable ==
    tr_out # None =>
        LET y == Val(tr_in)
            r == Val(tr_out)
        IN  (Len(y) >= 3 /\ ExactlyLinear(y)) =>
                /\ r.p = 1000000
                /\ r.p_value = 10000
                /\ r.trend = "STABLE"
                /\ r.slope_per_day = 1000 * (y[2] - y[1])

\* C27 witness: 0, 2, 4 rises by 2 points a day, far above 0.3, and is
\* reported STABLE with p_value 1.0
C27_Witness ==
    /\ tr_out # None
    /\ Val(tr_in) = <<0, 2, 4>>
    /\ Val(tr_out).slope_per_day = 2000
    /\ Val(tr_out).p_value = 10000
    /\ Val(tr_out).trend = "STABLE"

StrictlyIncreasing(x) == \A i \in 1..(Len(x) - 1) : x[i] < x[i + 1]

StrictlyDecreasing(x) == \A i \in 1..(Len(x) - 1) : x[i] > x[i + 1]

\* C10: for a strictly increasing series of length n >= 3 the test returns
\* S = n (n - 1) / 2 and, whenever the p-value is <= 0.05, which it is from
\* n = 5 on, trend "increasing" with significant true; for a strictly
\* decreasing series S = -n (n - 1) / 2 and the trend is "decreasing" under
\* the same condition.
C10_MonotoneSeries ==
    mk_out # None =>
        LET x == Val(tr_in)
            n == Len(x)
            r == Val(mk_out)
        IN  /\ (n >= 3 /\ StrictlyIncreasing(x)) =>
                   /\ 2 * r.S = n * (n - 1)
                   /\ n >= 5 => r.p_value <= 50000
                   /\ r.p_value <= 50000 =>
                          (r.trend = "increasing" /\ r.significant)
            /\ (n >= 3 /\ StrictlyDecreasing(x)) =>
                   /\ 2 * r.S = -n * (n - 1)
                   /\ n >= 5 => r.p_value <= 50000
                   /\ r.p_value <= 50000 =>
                          (r.trend = "decreasing" /\ r.significant)

\* C10 witness: five strictly increasing values, S = 10, reported increasing
C10_Witness ==
    /\ mk_out # None
    /\ Val(tr_in) = <<0, 1, 2, 3, 4>>
    /\ Val(mk_out).S = 10
    /\ Val(mk_out).trend = "increasing"
    /\ Val(mk_out).significant

\* C11: for an arithmetic progression a, a + d, a + 2d, ... of n >= 2 points
\* sens_slope returns slope d, intercept a and n_slopes = n (n - 1) / 2.
C11_ArithmeticProgression ==
    sen_out # None =>
        LET x == Val(tr_in)
            n == Len(x)
            r == Val(sen_out)
        IN  (n >= 2 /\ \A i \in 1..(n - 1) : x[i + 1] - x[i] = x[2] - x[1]) =>
                /\ r.slope = 1000000 * (x[2] - x[1])
                /\ r.intercept = 10000 * x[1]
                /\ 2 * r.n_slopes = n * (n - 1)

\* C11 witness: 1, 2, 3, 4 has slope 1.0, intercept 1.0 and 6 slopes
C11_Witness ==
    /\ sen_out # None
    /\ Val(tr_in) = <<1, 2, 3, 4>>
    /\ Val(sen_out).slope = 1000000
    /\ Val(sen_out).intercept = 10000
    /\ Val(sen_out).n_slopes = 6

\* C12 as stated: sens_slope on fewer than 2 points raises an error
\* instead of returning a slope.
C12_ShortSeriesRaises ==
    (sen_out # None /\ Len(Val(tr_in)) < 2) => Val(sen_out).raised

(***************************************************************************)
(* Predictive alerts: src/analysis/predictive_alerts.py                    *)
(* Scores, temperatures, rain and wind are in tenths; the weather lists    *)
(* hold numbers, as _safe_slice leaves them.  A score is the               *)
(* double nearest to k / 10, as round(x, 1) leaves it; the difference of   *)
(* two scores is compared as the float subtraction computes it.            *)
(***************************************************************************)

\* THRESHOLDS["WARNING"] = 50.0
WARNING == 500

\* THRESHOLDS["CRITICAL"] = 75.0
CRITICAL == 750

\* double(k / 10) - k / 10 in units of 2^-56 / 10, for a score of k tenths:
\* with k / 10 in [2^(g-4), 2^(g-3)) the spacing of the doubles is
\* 2^(g-56), and k 2^(56-g) / 10 is rounded to the nearest integer
FloatErr(k) ==
    IF k = 0 THEN 0
    ELSE LET g == Log2Floor((16 * k) \div 10)
             sh == (56 - g) % 4
             p == CASE sh = 0 -> 6
                    [] sh = 1 -> 2
                    [] sh = 2 -> 4
                    [] OTHER -> 8
             r == ((k % 10) * p) % 10
         IN  (IF r < 5 THEN -r ELSE 10 - r) * 2^g

\* a comparison of the decimal values of the two scores
DecimalDiffGt(ka, kb, limit) == kb - ka > limit

\* kb / 10 - ka / 10 > limit / 10 as floats, limit 100 or 150: the exact
\* difference of the two doubles is rounded to a multiple of 2^-49, so it
\* exceeds the limit iff it does so by more than 2^-50
FloatDiffGt(ka, kb, limit) ==
    IF kb - ka # limit THEN kb - ka > limit
    ELSE FloatErr(kb) - FloatErr(ka) > 640

\* dates[i] if i < len(dates) else f"Day {day_num}"
AlertDate(dates, day_num) ==
    IF day_num <= Len(dates) THEN dates[day_num] ELSE <<"Day", day_num>>

Alert(severity, day, date, score) ==
    [severity |-> severity, day |-> day, date |-> date, score |-> score]

\* a crossing test that does not look at the current score
CrossingIgnoringCurrent(current_risk_score, score, days_to, threshold) ==
    score >= threshold /\ days_to = None

\* "not currently_x and score >= THRESHOLDS[x] and days_to_x is None"
Crossing(current_risk_score, score, days_to, threshold) ==
    /\ ~(current_risk_score >= threshold)
    /\ score >= threshold
    /\ days_to = None

\* a maximum that forgets what it has seen
TrackMaxLast(score, max_risk) == score

\* "if score > max_risk: max_risk = score"
TrackMax(score, max_risk) == IF score > max_risk THEN score ELSE max_risk

\* one pass of the loop over the scores; st holds alerts, days_to_warning,
\* days_to_critical and max_risk
ScoreStep(scores, dates, current_risk_score, day_num, st) ==
    LET score == scores[day_num]
        warn  == Crossing(current_risk_score, score, st.days_to_warning, WARNING)
        crit  == Crossing(current_risk_score, score, st.days_to_critical, CRITICAL)
        rapid == /\ day_num > 1
                 /\ FloatDiffGt(scores[day_num - 1], score, 150)
        a1 == IF warn
              THEN Append(st.alerts, Alert("WARNING", day_num,
                                           AlertDate(dates, day_num), score))
              ELSE st.alerts
        a2 == IF crit
              THEN Append(a1, Alert("CRITICAL", day_num,
                                    AlertDate(dates, day_num), score))
              ELSE a1
        a3 == IF rapid
              THEN Append(a2, Alert("RAPID_INCREASE", day_num,
                                    AlertDate(dates, day_num), score))
              ELSE a2
    IN  [alerts           |-> a3,
         days_to_warning  |-> IF warn THEN Some(day_num) ELSE st.days_to_warning,
         days_to_critical |-> IF crit THEN Some(day_num) ELSE st.days_to_critical,
         max_risk         |-> TrackMax(score, st.max_risk)]

RECURSIVE ScoreLoop(_, _, _, _, _)
ScoreLoop(scores, dates, current_risk_score, day_num, st) ==
    IF day_num > Len(scores) THEN st
    ELSE ScoreLoop(scores, dates, current_risk_score, day_num + 1,
                   ScoreStep(scores, dates, current_risk_score, day_num, st))

\* all(t > 30 for t in temp_max[i-2:i+1]) with the window ending at day_num
HeatWindow(temp_max, day_num) ==
    \A j \in (day_num - 2)..day_num : temp_max[j] > 300

\* a heat loop that goes on after its first alert
RECURSIVE HeatLoopNoBreak(_, _)
HeatLoopNoBreak(temp_max, day_num) ==
    IF day_num > Len(temp_max) THEN <<>>
    ELSE IF day_num >= 3 /\ HeatWindow(temp_max, day_num)
    THEN <<day_num>> \o HeatLoopNoBreak(temp_max, day_num + 1)
    ELSE HeatLoopNoBreak(temp_max, day_num + 1)

\* the loop over temp_max with its break: the days alerted (at most one)
RECURSIVE HeatLoop(_, _)
HeatLoop(temp_max, day_num) ==
    IF day_num > Len(temp_max) THEN <<>>
    ELSE IF day_num >= 3 /\ HeatWindow(temp_max, day_num) THEN <<day_num>>
    ELSE HeatLoop(temp_max, day_num + 1)

\* the HEAT alerts of the days alerted
RECURSIVE HeatAlerts(_, _, _)
HeatAlerts(days, dates, scores) ==
    IF days = <<>> THEN <<>>
    ELSE <<Alert("HEAT", Head(days), AlertDate(dates, Head(days)),
                 IF Head(days) <= Len(scores) THEN scores[Head(days)] ELSE 0)>>
         \o HeatAlerts(Tail(days), dates, scores)

\* sum(1 for w in wind_max if (w or 0) < 8)
CalmDays(wind_max) ==
    Cardinality({i \in 1..Len(wind_max) : PyOr(wind_max[i], 0) < 80})

\* a rain test that includes 15 mm
HeavyRainInclusive(p) == PyOr(p, 0) >= 150

\* (p or 0) > 15
HeavyRain(p) == PyOr(p, 0) > 150

\* heavy_rain_days, as the set of 1-based days
HeavyRainDays(precip) == {i \in 1..Len(precip) : HeavyRain(precip[i])}

SetMin(S) == CHOOSE v \in S : \A w \in S : v <= w

\* risk_trajectory
Trajectory(scores) ==
    IF Len(scores) >= 2
    THEN IF FloatDiffGt(scores[1], scores[Len(scores)], 100) THEN "worsening"
         ELSE IF FloatDiffGt(scores[Len(scores)], scores[1], 100) THEN "improving"
         ELSE "stable"
    ELSE "stable"

\* build_predictive_alerts
build_predictive_alerts(forecast, current_risk_score) ==
    LET dates    == forecast.dates
        scores   == forecast.risk_scores
        temp_max == forecast.temp_max
        precip   == forecast.precip
        wind_max == forecast.wind_max
        st == ScoreLoop(scores, dates, current_risk_score, 1,
                        [alerts |-> <<>>, days_to_warning |-> None,
                         days_to_critical |-> None,
                         max_risk |-> current_risk_score])
        heat == HeatLoop(temp_max, 1)
        a4 == st.alerts \o HeatAlerts(heat, dates, scores)
        a5 == IF wind_max # <<>> /\ CalmDays(wind_max) >= 3
              THEN Append(a4, Alert("STAGNATION", 0, "", 0))
              ELSE a4
        a6 == IF HeavyRainDays(precip) # {}
              THEN Append(a5, Alert("NUTRIENT_FLUSH",
                                    SetMin(HeavyRainDays(precip)), "", 0))
              ELSE a5
    IN  [alerts            |-> a6,
         days_to_warning   |-> st.days_to_warning,
         days_to_critical  |-> st.days_to_critical,
         max_forecast_risk |-> st.max_risk,
         risk_trajectory   |-> Trajectory(scores),
         n_warnings        |-> Cardinality({i \in 1..Len(a6) :
                                   a6[i].severity \in {"WARNING", "CRITICAL"}}),
         n_alerts          |-> Len(a6)]

\* the longest risk_scores list
MaxScoreDays == 3

\* the longest temp_max, precip and wind_max list
MaxWeatherDays == 4

\* all sequences over V of length at most n
SeqsUpTo(V, n) == UNION {[1..k -> V] : k \in 0..n}

\* scores on both sides of the two thresholds, and pairs 15.0 and 15.1 apart
AlertScoreVals == {11, 161, 499, 500, 650, 750}

AlertCurrentVals == {499, 500, 750}

AlertTempVals == {290, 300, 301}

AlertRainVals == {0, 150, 151}

AlertWindVals == {0, 79, 80}

AlertDates == {<<>>, <<"d1", "d2", "d3", "d4", "d5", "d6", "d7">>}

\* the fixed values a list takes while another list varies
FixedScores == {<<>>, <<499, 750>>}

FixedTemps == {<<>>, <<301, 301, 301, 301>>}

FixedRain == {<<>>, <<0, 151>>}

FixedWind == {<<>>, <<79, 0, 0>>}

\* the argument records with the lists drawn from the given sets
AlertArgs(D, S, T, R, W) ==
    {[forecast |-> [dates |-> d, risk_scores |-> sc, temp_max |-> t,
                    precip |-> r, wind_max |-> w],
      current_risk_score |-> c] :
        d \in D, sc \in S, t \in T, r \in R, w \in W, c \in AlertCurrentVals}

\* one list varies freely while the others take one of their fixed values
InitAlerts ==
    /\ \E a \in AlertArgs(AlertDates, SeqsUpTo(AlertScoreVals, MaxScoreDays),
                          FixedTemps, FixedRain, FixedWind)
             \cup AlertArgs(AlertDates, FixedScores,
                            SeqsUpTo(AlertTempVals, MaxWeatherDays),
                            FixedRain, {<<>>})
             \cup AlertArgs(AlertDates, FixedScores, {<<>>},
                            SeqsUpTo(AlertRainVals, MaxWeatherDays),
                            FixedWind)
             \cup AlertArgs(AlertDates, FixedScores, FixedTemps, {<<>>},
                            SeqsUpTo(AlertWindVals, MaxWeatherDays)) :
           pa_in = Some(a)
    /\ pa_out = None
    /\ RiskIdle /\ ForecastIdle /\ GrowthIdle /\ TrendIdle /\ CellsIdle /\ BandsIdle /\ PipelineIdle /\ HistoryIdle /\ DayIdle /\ CloudIdle /\ ScorerIdle /\ DataIdle /\ CyfiIdle

BuildPredictiveAlerts ==
    /\ pa_in # None
    /\ pa_out = None
    /\ pa_out' = Some(build_predictive_alerts(Val(pa_in).forecast,
                                              Val(pa_in).current_risk_score))
    /\ UNCHANGED <<risk_vars, forecast_vars, growth_vars, trend_vars, cells_vars, pa_in, bands_vars, pipeline_vars, history_vars, day_vars, cloud_vars, scorer_vars, data_vars, cyfi_vars>>

NextAlerts == BuildPredictiveAlerts

SpecAlerts == InitAlerts /\ [][NextAlerts]_vars

\* the alerts of a severity in the result, as indices into alerts
AlertsOf(severity) ==
    {i \in 1..Len(Val(pa_out).alerts) : Val(pa_out).alerts[i].severity = severity}

\* the 1-based first day whose score is at least the threshold, None when
\* the current score already is or no day is
FirstCrossing(threshold) ==
    LET scores == Val(pa_in).forecast.risk_scores
        days   == {i \in 1..Len(scores) : scores[i] >= threshold}
    IN  IF Val(pa_in).current_risk_score < threshold /\ days # {}
        THEN Some(SetMin(days))
        ELSE None

\* C13: days_to_warning is the 1-based first forecast day with score >= 50
\* when the current score is < 50 and such a day exists, null otherwise, and
\* exactly one WARNING alert (for that day) is emitted iff it is non-null;
\* the same for days_to_critical, CRITICAL and 75; no alert is emitted for
\* a level the current score already meets.
C13_ThresholdCrossings ==
    pa_out # None =>
        LET r == Val(pa_out)
        IN  /\ r.days_to_warning = FirstCrossing(500)
            /\ r.days_to_critical = FirstCrossing(750)
            /\ Cardinality(AlertsOf("WARNING"))
                   = IF r.days_to_warning # None THEN 1 ELSE 0
            /\ Cardinality(AlertsOf("CRITICAL"))
                   = IF r.days_to_critical # None THEN 1 ELSE 0
            /\ \A i \in AlertsOf("WARNING") :
                   r.alerts[i].day = Val(r.days_to_warning)
            /\ \A i \in AlertsOf("CRITICAL") :
                   r.alerts[i].day = Val(r.days_to_critical)
            /\ Val(pa_in).current_risk_score >= 500 => AlertsOf("WARNING") = {}
            /\ Val(pa_in).current_risk_score >= 750 => AlertsOf("CRITICAL") = {}

\* C13 witness: from 49.9 the forecast 49.9, 50.0, 75.0 crosses WARNING on
\* day 2 and CRITICAL on day 3
C13_Witness ==
    /\ pa_out # None
    /\ Val(pa_in).current_risk_score = 499
    /\ Val(pa_in).forecast.risk_scores = <<499, 500, 750>>
    /\ Val(pa_out).days_to_warning = Some(2)
    /\ Val(pa_out).days_to_critical = Some(3)
    /\ Cardinality(AlertsOf("WARNING")) = 1

\* C14: at most one HEAT alert is emitted; it is emitted iff some three
\* consecutive forecast days all have temp_max > 30, and its day is the
\* last day of the earliest such window.
C14_OneHeatAlert ==
    pa_out # None =>
        LET t    == Val(pa_in).forecast.temp_max
            ends == {i \in 3..Len(t) :
                        t[i - 2] > 300 /\ t[i - 1] > 300 /\ t[i] > 300}
        IN  /\ Cardinality(AlertsOf("HEAT")) <= 1
            /\ (AlertsOf("HEAT") # {}) <=> (ends # {})
            /\ \A i \in AlertsOf("HEAT") :
                   Val(pa_out).alerts[i].day = SetMin(ends)

\* C14 witness: four hot days hold two windows and give one alert, on day 3
C14_Witness ==
    /\ pa_out # None
    /\ Val(pa_in).forecast.temp_max = <<301, 301, 301, 301>>
    /\ Cardinality(AlertsOf("HEAT")) = 1
    /\ \A i \in AlertsOf("HEAT") : Val(pa_out).alerts[i].day = 3

\* C15 as stated: exactly one RAPID_INCREASE alert for each forecast day
\* whose score exceeds the preceding day's score by strictly more than 15
\* points, and none for any other day (a rise of exactly 15 produces none).
C15_RapidIncreaseOver15 ==
    pa_out # None =>
        LET scores == Val(pa_in).forecast.risk_scores
        IN  \A d \in 1..Len(scores) :
                Cardinality({i \in AlertsOf("RAPID_INCREASE") :
                                Val(pa_out).alerts[i].day = d})
                    = IF d > 1 /\ scores[d] - scores[d - 1] > 150 THEN 1 ELSE 0

\* C16: a NUTRIENT_FLUSH alert is emitted iff some forecast day has
\* precipitation > 15 mm; at most one is emitted and its day is the first
\* day above 15 mm.
C16_NutrientFlush ==
    pa_out # None =>
        LET precip == Val(pa_in).forecast.precip
            wet    == {i \in 1..Len(precip) : precip[i] > 150}
        IN  /\ Cardinality(AlertsOf("NUTRIENT_FLUSH")) <= 1
            /\ (AlertsOf("NUTRIENT_FLUSH") # {}) <=> (wet # {})
            /\ \A i \in AlertsOf("NUTRIENT_FLUSH") :
                   Val(pa_out).alerts[i].day = SetMin(wet)

\* C16 witness: 15.0 mm on day 1 is not enough, 15.1 mm on days 2 and 3
\* gives one alert, for day 2
C16_Witness ==
    /\ pa_out # None
    /\ Val(pa_in).forecast.precip = <<150, 151, 151>>
    /\ Cardinality(AlertsOf("NUTRIENT_FLUSH")) = 1
    /\ \A i \in AlertsOf("NUTRIENT_FLUSH") : Val(pa_out).alerts[i].day = 2

\* C25: in every result, a non-null days_to_critical comes with a current
\* score >= 50 or with a non-null days_to_warning that is <= it; no CRITICAL
\* alert stands before the WARNING alert in the alerts list; n_alerts is the
\* number of alerts; max_forecast_risk is >= the current score and >= every
\* forecast score.
C25_ResultConsistent ==
    pa_out # None =>
        LET r      == Val(pa_out)
            scores == Val(pa_in).forecast.risk_scores
        IN  /\ r.days_to_critical # None =>
                   \/ Val(pa_in).current_risk_score >= 500
                   \/ /\ r.days_to_warning # None
                      /\ Val(r.days_to_warning) <= Val(r.days_to_critical)
            /\ \A c \in AlertsOf("CRITICAL") : \A w \in AlertsOf("WARNING") : w < c
            /\ r.n_alerts = Len(r.alerts)
            /\ r.max_forecast_risk >= Val(pa_in).current_risk_score
            /\ \A i \in 1..Len(scores) : r.max_forecast_risk >= scores[i]

\* C25 witness: from 49.9 the forecast passes 50 on day 1 and 75 on day 2,
\* then falls back; the WARNING alert stands before the CRITICAL one and the
\* maximum is the day-2 score
C25_Witness ==
    /\ pa_out # None
    /\ Val(pa_in).current_risk_score = 499
    /\ Val(pa_in).forecast.risk_scores = <<500, 750, 161>>
    /\ Val(pa_out).days_to_warning = Some(1)
    /\ Val(pa_out).days_to_critical = Some(2)
    /\ AlertsOf("WARNING") = {1}
    /\ AlertsOf("CRITICAL") = {2}
    /\ Val(pa_out).max_forecast_risk = 750
    /\ Val(pa_out).n_alerts >= 3

(***************************************************************************)
(* Confidence bands: src/analysis/uncertainty.py, on the forecast dict of  *)
(* the caller, which src/app.py hands on to build_predictive_alerts.       *)
(* A dict is a function from its keys.                                     *)
(***************************************************************************)

\* {"HIGH": 5, "MEDIUM": 10, "LOW": 18}.get(confidence, 12)
BaseWidth(confidence) ==
    CASE confidence = "HIGH"   -> 5
      [] confidence = "MEDIUM" -> 10
      [] confidence = "LOW"    -> 18
      [] OTHER                 -> 12

\* a width that does not grow with the horizon
DayWidthFlat(base_width, i) == 10 * base_width

\* day_width = base_width + i * 2.5 in tenths, i the 0-based day
DayWidth(base_width, i) == 10 * base_width + 25 * i

\* compute_confidence_bands: the dict the forecast object holds after the
\* call, which is also the value returned; dq_confidence is
\* raw["data_quality"]["confidence"], None when absent
compute_confidence_bands(forecast, dq_confidence) ==
    LET scores     == forecast.risk_scores
        confidence == IF dq_confidence = None THEN "MEDIUM" ELSE Val(dq_confidence)
        base_width == BaseWidth(confidence)
        upper == [k \in 1..Len(scores) |->
                     Min2(1000, scores[k] + DayWidth(base_width, k - 1))]
        lower == [k \in 1..Len(scores) |->
                     Max2(0, scores[k] - DayWidth(base_width, k - 1))]
    IN  [upper_band |-> upper, lower_band |-> lower,
         band_confidence |-> confidence] @@ forecast

\* the longest forecast handed to compute_confidence_bands
MaxBandDays == 3

BandScoreVals == {0, 30, 500, 960, 1000}

BandConfidenceVals == {None, Some("HIGH"), Some("MEDIUM"), Some("LOW"), Some("UNKNOWN")}

\* a forecast as build_7day_forecast returns it, around the given scores
ForecastAround(scores) ==
    [dates       |-> SubSeq(<<"d1", "d2", "d3">>, 1, Min2(3, Len(scores))),
     risk_scores |-> scores,
     temp_max    |-> [k \in 1..Len(scores) |-> 301],
     temp_min    |-> [k \in 1..Len(scores) |-> 190],
     precip      |-> [k \in 1..Len(scores) |-> 0],
     wind_max    |-> [k \in 1..Len(scores) |-> 100],
     uv_max      |-> [k \in 1..Len(scores) |-> 70]]

InitBands ==
    /\ \E scores \in SeqsUpTo(BandScoreVals, MaxBandDays),
          c \in BandConfidenceVals :
           /\ cb_in = Some([forecast |-> ForecastAround(scores), confidence |-> c])
           /\ cb_forecast = Some(ForecastAround(scores))
    /\ cb_out = None
    /\ cb_alerts = None
    /\ RiskIdle /\ ForecastIdle /\ GrowthIdle /\ TrendIdle /\ CellsIdle /\ AlertsIdle /\ PipelineIdle /\ HistoryIdle /\ DayIdle /\ CloudIdle /\ ScorerIdle /\ DataIdle /\ CyfiIdle

\* forecast = compute_confidence_bands(forecast_raw, raw): the keys are
\* written into the dict passed in, and that dict is returned
ComputeConfidenceBands ==
    /\ cb_forecast # None
    /\ cb_out = None
    /\ cb_forecast' = Some(compute_confidence_bands(Val(cb_forecast),
                                                    Val(cb_in).confidence))
    /\ cb_out' = cb_forecast'
    /\ UNCHANGED <<risk_vars, forecast_vars, growth_vars, trend_vars, cells_vars, alerts_vars, cb_in, cb_alerts, pipeline_vars, history_vars, day_vars, cloud_vars, scorer_vars, data_vars, cyfi_vars>>

\* build_predictive_alerts(forecast, risk_score, risk_level) on the same dict
AlertsOnForecast ==
    /\ cb_forecast # None
    /\ cb_alerts = None
    /\ cb_alerts' = Some(build_predictive_alerts(Val(cb_forecast), 499))
    /\ UNCHANGED <<risk_vars, forecast_vars, growth_vars, trend_vars, cells_vars, alerts_vars, cb_in, cb_forecast, cb_out, pipeline_vars, history_vars, day_vars, cloud_vars, scorer_vars, data_vars, cyfi_vars>>

NextBands == ComputeConfidenceBands \/ AlertsOnForecast

SpecBands == InitBands /\ [][NextBands]_vars

\* C17: upper_band and lower_band have the length of risk_scores; for the
\* 0-based day i and w = base + 2.5 i (base 5 for HIGH, 10 for MEDIUM, 18
\* for LOW) upper[i] = min(100, score[i] + w) and
\* lower[i] = max(0, score[i] - w); every band value is in [0, 100] and
\* lower[i] <= upper[i].
C17_ConfidenceBands ==
    cb_out # None =>
        LET f      == Val(cb_out)
            scores == Val(cb_in).forecast.risk_scores
            c      == Val(cb_in).confidence
            base   == IF c = Some("HIGH") THEN 50
                      ELSE IF c = Some("MEDIUM") THEN 100
                      ELSE 180
        IN  /\ Len(f.upper_band) = Len(scores)
            /\ Len(f.lower_band) = Len(scores)
            /\ \A k \in 1..Len(scores) :
                   /\ f.upper_band[k] \in 0..1000
                   /\ f.lower_band[k] \in 0..1000
                   /\ f.lower_band[k] <= f.upper_band[k]
                   /\ c \in {Some("HIGH"), Some("MEDIUM"), Some("LOW")} =>
                          /\ f.upper_band[k]
                                 = Min2(1000, scores[k] + base + 25 * (k - 1))
                          /\ f.lower_band[k]
                                 = Max2(0, scores[k] - base - 25 * (k - 1))

\* C17 witness: LOW confidence; 3.0 is clamped below on day 0 and 96.0
\* above on day 2, 50.0 on day 1 has the band 29.5 .. 70.5
C17_Witness ==
    /\ cb_out # None
    /\ Val(cb_in).confidence = Some("LOW")
    /\ Val(cb_in).forecast.risk_scores = <<30, 500, 960>>
    /\ Val(cb_out).lower_band = <<0, 295, 730>>
    /\ Val(cb_out).upper_band = <<210, 705, 1000>>

\* C18 as stated: after compute_confidence_bands(forecast, raw) and after
\* build_predictive_alerts(forecast, ...) the caller's forecast object has
\* the same keys and values as before the call.
C18_ForecastUnchanged ==
    (cb_out # None \/ cb_alerts # None) => cb_forecast = Some(Val(cb_in).forecast)

(***************************************************************************)
(* The scoring chain of run_full_pipeline (src/app.py): the light features *)
(* of build_feature_vector, the light scorer, compute_growth_rate,         *)
(* compute_bloom_probability and build_7day_forecast, with the wall clock  *)
(* as part of the state.  Angles are in micro-radians, fractions in        *)
(* millionths.                                                             *)
(***************************************************************************)

\* np.pi in micro-radians
PI_MICRO == 3141593

HalfPi == PI_MICRO \div 2

\* the amplitude 23.44 degrees of the solar declination, in micro-radians
DECL_MAX == 409105

\* a * b for millionths a and b of either sign, |a| < 2,100,000, |b| <= 1,000,000
SMul(a, b) ==
    IF (a >= 0) = (b >= 0) THEN MulMicro(Abs(a), Abs(b))
    ELSE -MulMicro(Abs(a), Abs(b))

\* sin x for 0 <= x <= pi/4: Horner form of the Taylor series to x^9
SinSmall(x) ==
    LET x2 == MulMicro(x, x)
        h(t, k) == 1000000 - MulMicro(x2, t) \div k
    IN  MulMicro(x, h(h(h(h(1000000, 72), 42), 20), 6))

\* cos x for 0 <= x <= pi/4: Horner form of the Taylor series to x^10
CosSmall(x) ==
    LET x2 == MulMicro(x, x)
        h(t, k) == 1000000 - MulMicro(x2, t) \div k
    IN  h(h(h(h(h(1000000, 90), 56), 30), 12), 2)

\* cos x for 0 <= x <= pi/2
CosQuarter(x) == IF 2 * x <= HalfPi THEN CosSmall(x) ELSE SinSmall(HalfPi - x)

\* np.cos for |x| <= 2 pi
Cos(x) ==
    LET a == Abs(x)
        b == IF a > PI_MICRO THEN 2 * PI_MICRO - a ELSE a
    IN  IF b <= HalfPi THEN CosQuarter(b) ELSE -CosQuarter(PI_MICRO - b)

\* sin x for |x| <= pi/2
Sin(x) == IF x >= 0 THEN Cos(HalfPi - x) ELSE -Cos(HalfPi + x)

\* floor(n * 10^digits / d) by decimal long division; n >= 0, 0 < d < 2^27
RECURSIVE DecDivStep(_, _, _, _)
DecDivStep(q, r, d, digits) ==
    IF digits = 0 THEN q
    ELSE DecDivStep(10 * q + (10 * r) \div d, (10 * r) % d, d, digits - 1)

DecDiv(n, d) == DecDivStep(n \div d, n % d, d, 6)

\* np.arccos by bisection on the decreasing cosine over [0, pi]
RECURSIVE ArcCosBisect(_, _, _, _)
ArcCosBisect(lo, hi, c, k) ==
    IF k = 0 THEN lo
    ELSE LET mid == (lo + hi) \div 2
         IN  IF Cos(mid) >= c THEN ArcCosBisect(mid, hi, c, k - 1)
             ELSE ArcCosBisect(lo, mid, c, k - 1)

ArcCos(c) ==
    IF c >= 1000000 THEN 0
    ELSE IF c <= -1000000 THEN PI_MICRO
    ELSE ArcCosBisect(0, PI_MICRO, c, 22)

\* normalize_uv: np.clip(uv_index / 11, 0, 1); uv_index in tenths
normalize_uv(uv_index) == Clip((uv_index * 1000000) \div 110, 0, 1000000)

\* photoperiod: the day length in micro-hours; latitude in whole degrees.
\* tan(lat) tan(decl) is formed as sin sin / (cos cos), clipped to [-1, 1]
photoperiod(latitude, day_of_year) ==
    LET lat_abs  == NDiv(Abs(latitude) * 17453293, 1000)
        lat_rad  == IF latitude >= 0 THEN lat_abs ELSE -lat_abs
        decl_rad == SMul(DECL_MAX, Cos(NDiv(Abs(172 - day_of_year) * 6283185, 365)))
        num      == SMul(Sin(lat_rad), Sin(decl_rad))
        den      == SMul(Cos(lat_rad), Cos(decl_rad))
        tan_tan  == IF num = 0 THEN 0
                    ELSE IF den <= 0 \/ Abs(num) >= den
                         THEN (IF num > 0 THEN 1000000 ELSE -1000000)
                    ELSE IF num > 0 THEN DecDiv(num, den)
                    ELSE -DecDiv(-num, den)
        ha       == ArcCos(-tan_tan)
    IN  24 * Min2(1000000, DecDiv(ha, PI_MICRO))

\* cloud_suppression: a cover of at most 1 is read as a fraction, anything
\* above as a percentage; cloud_cover in whole units
cloud_suppression(cloud_cover) ==
    LET cc_frac == IF cloud_cover <= 1 THEN cloud_cover * 1000000
                   ELSE cloud_cover * 10000
    IN  Clip(1000000 - cc_frac, 0, 1000000)

\* light_features.compute_light_score, in millionths of 100 points
lf_compute_light_score(uv_index, cloud_cover, latitude, day_of_year) ==
    LET uv_norm      == normalize_uv(uv_index)
        daylen       == photoperiod(latitude, day_of_year)
        daylen_norm  == Clip(daylen \div 24, 0, 1000000)
        cloud_factor == cloud_suppression(cloud_cover)
    IN  MulMicro(MulMicro(uv_norm, daylen_norm), cloud_factor)

\* light_model.compute_light_score: the score in tenths
compute_light_score(light_features) ==
    RoundDiv(Clip(lf_compute_light_score(light_features.uv_index,
                                         light_features.cloud_cover,
                                         light_features.latitude,
                                         light_features.day_of_year),
                  0, 1000000),
             1000)

\* the light features of build_feature_vector: day_of_year is read from the
\* clock, the rest from raw
LightFeatures(raw, now) ==
    [uv_index    |-> raw.uv_index,
     cloud_cover |-> raw.cloud_cover,
     latitude    |-> raw.lat,
     day_of_year |-> now]

\* one run of the chain on raw with the clock at day-of-year now.  The
\* temperature, nutrient and stagnation scorers read no clock; raw carries
\* the scores they return for it, and the water temperature estimate.
run_full_pipeline(raw, now) ==
    LET l_score == compute_light_score(LightFeatures(raw, now))
        gr   == compute_growth_rate(12 * raw.t_score, 12 * raw.n_score,
                                    12 * l_score, 12 * raw.s_score,
                                    raw.water_temp)
        risk == compute_bloom_probability(raw.t_score, raw.n_score,
                                          raw.s_score, l_score,
                                          gr.mu_per_day, None)
    IN  [scores     |-> [temperature |-> raw.t_score, nutrients |-> raw.n_score,
                         stagnation |-> raw.s_score, light |-> l_score],
         mu_per_day |-> gr.mu_per_day,
         risk_score |-> risk.risk_score,
         forecast   |-> build_7day_forecast(raw.daily, risk.risk_score, now)]

\* days of the year the clock shows: the June solstice, the day after,
\* and the December solstice
ClockVals == {172, 173, 355}

\* latitudes in degrees: the equator and one in each hemisphere
LatVals == {-35, 0, 45}

\* the numbers of days of daily weather in raw: none, some, a full week
RawDayCounts == {0, 3, 7}

\* the daily weather of raw with nd days, in tenths: a warm, dry week with
\* rising wind
RawDaily(nd) ==
    [time |-> [i \in 1..nd |-> 200 + i],
     temperature_2m_max |-> [i \in 1..nd |-> Some(280 + 5 * i)],
     temperature_2m_min |-> [i \in 1..nd |-> Some(190 + 5 * i)],
     precipitation_sum  |-> [i \in 1..nd |-> Some(0)],
     wind_speed_10m_max |-> [i \in 1..nd |-> Some(70 + 30 * i)],
     uv_index_max       |-> [i \in 1..nd |-> Some(70)]]

InitPipeline ==
    /\ \E lat \in LatVals, uv \in {30, 80}, cloud \in {40, 60},
          ts \in {350, 500}, nd \in RawDayCounts :
           pl_raw = Some([lat |-> lat, uv_index |-> uv, cloud_cover |-> cloud,
                          t_score |-> ts, n_score |-> 420, s_score |-> 610,
                          water_temp |-> 240, daily |-> RawDaily(nd)])
    /\ pl_now \in {Some(d) : d \in ClockVals}
    /\ pl_runs = <<>>
    /\ RiskIdle /\ ForecastIdle /\ GrowthIdle /\ TrendIdle /\ CellsIdle /\ AlertsIdle /\ BandsIdle /\ HistoryIdle /\ DayIdle /\ CloudIdle /\ ScorerIdle /\ DataIdle /\ CyfiIdle

\* time passes between two runs
Tick ==
    /\ pl_now # None
    /\ \E d \in ClockVals : d > Val(pl_now) /\ pl_now' = Some(d)
    /\ UNCHANGED <<risk_vars, forecast_vars, growth_vars, trend_vars, cells_vars, alerts_vars, bands_vars, pl_raw, pl_runs, history_vars, day_vars, cloud_vars, scorer_vars, data_vars, cyfi_vars>>

\* the chain is run on the same raw input
RunFullPipeline ==
    /\ pl_raw # None
    /\ Len(pl_runs) < 2
    /\ pl_runs' = Append(pl_runs, run_full_pipeline(Val(pl_raw), Val(pl_now)))
    /\ UNCHANGED <<risk_vars, forecast_vars, growth_vars, trend_vars, cells_vars, alerts_vars, bands_vars, pl_raw, pl_now, history_vars, day_vars, cloud_vars, scorer_vars, data_vars, cyfi_vars>>

NextPipeline == Tick \/ RunFullPipeline

SpecPipeline == InitPipeline /\ [][NextPipeline]_vars

\* C19 as stated: two runs of the chain on identical raw input yield
\* identical sub-scores, risk score and forecast, whatever the wall clock
\* shows at each run.
C19_Deterministic ==
    Len(pl_runs) = 2 => pl_runs[1] = pl_runs[2]

(***************************************************************************)
(* History-dependent outputs on a short history: the seasonal baseline of  *)
(* src/features/feature_pipeline.py, build_historical_comparison, and the  *)
(* trend series of src/app.py with the trend tests run on it.  A history   *)
(* is the temp_mean column in tenths of a degree, None when absent; it     *)
(* stays below 30 entries, the degraded mode of the first two functions.   *)
(***************************************************************************)

\* _compute_seasonal_anomaly_via_tf below 30 entries: round(current_temp, 1)
\* and 0.0; current_temp and the baseline in hundredths of a degree
_compute_seasonal_anomaly_via_tf(hist_df, current_temp) ==
    CASE hist_df = None \/ Len(Val(hist_df)) < 30 ->
             [baseline |-> 10 * RoundDiv(current_temp, 10), anomaly |-> 0]

\* build_historical_comparison below 30 entries: the initial result
build_historical_comparison(hist_df) ==
    CASE hist_df = None \/ Len(Val(hist_df)) < 30 ->
             [available |-> FALSE, anomaly_flags |-> <<>>,
              isolation_forest_anomaly |-> FALSE,
              comparison_text |-> "Insufficient historical data for comparison."]

\* hist.tail(30)
Tail30(hist) == SubSeq(hist, Max2(1, Len(hist) - 29), Len(hist))

\* n^2 (n - 1) times the sample variance of recent: zero iff sig == 0
VarianceTerm(recent) ==
    LET n  == Len(recent)
        st == SetSum(recent, 1..n)
    IN  n * SetSum([i \in 1..n |-> recent[i] * recent[i]], 1..n) - st * st

\* z = (row["temp_mean"] - mu) / sig in micro units, sig the sample
\* standard deviation: z^2 = dev^2 (n - 1) / (n ss) with dev = n T - sum
ZScore(recent, k) ==
    LET n   == Len(recent)
        dev == n * recent[k] - SetSum(recent, 1..n)
        az  == MulDiv(ISqrt(LongDiv(dev * dev * (n - 1),
                                    n * VarianceTerm(recent), 24)),
                      15625, 64)
    IN  IF dev >= 0 THEN az ELSE -az

\* scipy.special.expit(x) * 100 rounded to one decimal, in tenths; x micro
Expit1000(x) ==
    IF x <= 0 THEN RoundDiv(1000 * Exp14(x), ONE14 + Exp14(x))
    ELSE RoundDiv(1000 * ONE14, ONE14 + Exp14(-x))

\* round(expit(0.3 * (temp_mean - 25.0) + 0.4 * z) * 100, 1)
ProxyScore(recent, k) ==
    LET z == ZScore(recent, k)
        z4 == IF z >= 0 THEN NDiv(4 * z, 10) ELSE -NDiv(-4 * z, 10)
    IN  Expit1000(30000 * (recent[k] - 250) + z4)

\* _build_trend_series; scores in tenths
_build_trend_series(hist, current_score) ==
    IF hist = None \/ Len(Val(hist)) < 10 THEN <<current_score>>
    ELSE LET recent == Tail30(Val(hist))
         IN  IF VarianceTerm(recent) = 0
             THEN [i \in 1..Min2(30, Len(recent)) |-> current_score]
             ELSE Append([k \in 1..Len(recent) |-> ProxyScore(recent, k)],
                         current_score)

\* a series of tenths in whole points, the unit of the trend tests
InPoints(series) == [i \in 1..Len(series) |-> series[i] \div 10]

\* the trend series of run_full_pipeline with the OLS trend and the
\* Mann-Kendall test on it
TrendOnSeries(hist, current_score) ==
    LET trend_series == _build_trend_series(hist, current_score)
    IN  [trend_series |-> trend_series,
         trend        |-> compute_trend(InPoints(trend_series)),
         mk_result    |-> mann_kendall_test(InPoints(trend_series))]

\* days at cold tenths of a degree followed by days at thaw
ColdThenThaw(a, cold, b, thaw) == [i \in 1..(a + b) |-> IF i <= a THEN cold ELSE thaw]

\* histories below 30 entries: absent, empty, constant ones up to 29 days,
\* and a cold spell ending in a thaw, 10 or 11 days in all
ShortHistories ==
    {None}
    \cup {Some(ColdThenThaw(a, -30, 0, 0)) : a \in {0, 5, 9, 10, 29}}
    \cup {Some(ColdThenThaw(ab[1], -30, ab[2], thaw)) :
              ab \in {<<7, 3>>, <<8, 2>>, <<8, 3>>, <<9, 1>>, <<9, 2>>, <<10, 1>>},
              thaw \in {60, 72, 76, 80}}

\* every score of the trend series is a whole number of points
WholePoints(hist, current_score) ==
    \A v \in {_build_trend_series(hist, current_score)[i] :
                  i \in 1..Len(_build_trend_series(hist, current_score))} :
        v % 10 = 0

InitHistory ==
    /\ \E hist \in ShortHistories, current_temp \in {-250, 300, 2230},
          current_score \in {10, 20} :
           /\ WholePoints(hist, current_score)
           /\ hs_in = Some([hist |-> hist, current_temp |-> current_temp,
                            current_score |-> current_score])
    /\ hs_seasonal = None
    /\ hs_comparison = None
    /\ hs_trend = None
    /\ RiskIdle /\ ForecastIdle /\ GrowthIdle /\ TrendIdle /\ CellsIdle /\ AlertsIdle /\ BandsIdle /\ PipelineIdle /\ DayIdle /\ CloudIdle /\ ScorerIdle /\ DataIdle /\ CyfiIdle

\* baseline, anomaly = _compute_seasonal_anomaly_via_tf(hist_df, air_temp)
ComputeSeasonalAnomaly ==
    /\ hs_in # None
    /\ hs_seasonal = None
    /\ hs_seasonal' = Some(_compute_seasonal_anomaly_via_tf(Val(hs_in).hist,
                                                            Val(hs_in).current_temp))
    /\ UNCHANGED <<risk_vars, forecast_vars, growth_vars, trend_vars, cells_vars, alerts_vars, bands_vars, pipeline_vars, hs_in, hs_comparison, hs_trend, day_vars, cloud_vars, scorer_vars, data_vars, cyfi_vars>>

BuildHistoricalComparison ==
    /\ hs_in # None
    /\ hs_comparison = None
    /\ hs_comparison' = Some(build_historical_comparison(Val(hs_in).hist))
    /\ UNCHANGED <<risk_vars, forecast_vars, growth_vars, trend_vars, cells_vars, alerts_vars, bands_vars, pipeline_vars, hs_in, hs_seasonal, hs_trend, day_vars, cloud_vars, scorer_vars, data_vars, cyfi_vars>>

\* trend_series = _build_trend_series(raw, risk["risk_score"]),
\* trend = compute_trend(trend_series) and
\* mk_result = mann_kendall_test(trend_series)
TrendOnHistory ==
    /\ hs_in # None
    /\ hs_trend = None
    /\ hs_trend' = Some(TrendOnSeries(Val(hs_in).hist, Val(hs_in).current_score))
    /\ UNCHANGED <<risk_vars, forecast_vars, growth_vars, trend_vars, cells_vars, alerts_vars, bands_vars, pipeline_vars, hs_in, hs_seasonal, hs_comparison, day_vars, cloud_vars, scorer_vars, data_vars, cyfi_vars>>

NextHistory == ComputeSeasonalAnomaly \/ BuildHistoricalComparison \/ TrendOnHistory

SpecHistory == InitHistory /\ [][NextHistory]_vars

\* C20 as stated: with the history absent or below 30 entries every
\* history-dependent output takes its neutral default: the seasonal
\* baseline is the current air temperature and the anomaly 0, the
\* historical comparison is unavailable, the OLS trend is STABLE and the
\* Mann-Kendall trend is "no trend".
C20_NeutralDefaults ==
    /\ hs_seasonal # None =>
           /\ Val(hs_seasonal).baseline = Val(hs_in).current_temp
           /\ Val(hs_seasonal).anomaly = 0
    /\ hs_comparison # None => ~Val(hs_comparison).available
    /\ hs_trend # None =>
           /\ Val(hs_trend).trend.trend = "STABLE"
           /\ Val(hs_trend).mk_result.trend = "no trend"

(***************************************************************************)
(* Cloud cover in percent: src/light_features.py, cloud_suppression, and   *)
(* the light score of src/models/light_model.py under two covers           *)
(***************************************************************************)

\* cloud cover in whole percent, as the weather feed reports it
CloudPercents == 0..100

\* UV index in tenths
CloudUvVals == {30, 80}

InitCloud ==
    /\ \E p \in CloudPercents, q \in CloudPercents, uv \in CloudUvVals :
           /\ p < q
           /\ cs_in = Some([uv_index |-> uv, latitude |-> 45,
                            day_of_year |-> 172, p |-> p, q |-> q])
    /\ cs_out = None
    /\ RiskIdle /\ ForecastIdle /\ GrowthIdle /\ TrendIdle /\ CellsIdle /\ AlertsIdle /\ BandsIdle /\ PipelineIdle /\ HistoryIdle /\ DayIdle /\ ScorerIdle /\ DataIdle /\ CyfiIdle

\* the features with the given cloud cover
WithCloud(f, cloud_cover) ==
    [uv_index |-> f.uv_index, cloud_cover |-> cloud_cover,
     latitude |-> f.latitude, day_of_year |-> f.day_of_year]

\* compute_light_score under each of the two covers
ScoreLight ==
    /\ cs_in # None
    /\ cs_out = None
    /\ LET f == Val(cs_in)
       IN  cs_out' = Some([factor_p |-> cloud_suppression(f.p),
                           factor_q |-> cloud_suppression(f.q),
                           score_p  |-> compute_light_score(WithCloud(f, f.p)),
                           score_q  |-> compute_light_score(WithCloud(f, f.q))])
    /\ UNCHANGED <<risk_vars, forecast_vars, growth_vars, trend_vars, cells_vars, alerts_vars, bands_vars, pipeline_vars, history_vars, day_vars, cs_in, scorer_vars, data_vars, cyfi_vars>>

NextCloud == ScoreLight

SpecCloud == InitCloud /\ [][NextCloud]_vars

\* C24: for a cloud cover of p percent, p in 0..100, cloud_suppression
\* returns 1 - p / 100 (1 percent yields 0.99), so that for percentage
\* inputs the light score never increases as the cloud cover increases.
C24_PercentageCloud ==
    cs_out # None =>
        LET f == Val(cs_in)
            o == Val(cs_out)
        IN  /\ o.factor_p = 1000000 - 10000 * f.p
            /\ o.factor_q = 1000000 - 10000 * f.q
            /\ o.score_q <= o.score_p

(***************************************************************************)
(* The four sub-scorers: src/models/temperature_model.py,                  *)
(* nutrient_model.py, stagnation_model.py and light_model.py, with         *)
(* src/temperature_features.py and src/stagnation_features.py.             *)
(* A feature dict is a function from the keys it holds to Some(number) or  *)
(* None (python None).  Temperatures, wind and UV are in tenths, land-use  *)
(* shares, rainfall deficit and cloud cover in whole units; scores are in  *)
(* tenths of a point.                                                      *)
(***************************************************************************)

\* d.get(key, default): the default stands in for an absent key only
GetField(d, key, default) ==
    IF key \in DOMAIN d THEN d[key] ELSE Some(default)

\* a get that also puts the default in the place of a None
GetFieldOrDefault(d, key, default) ==
    IF key \in DOMAIN d /\ d[key] # None THEN d[key] ELSE Some(default)

\* arithmetic or comparison on None raises TypeError
TypeError == [raised |-> TRUE, score |-> 0]

Returned(score) == [raised |-> FALSE, score |-> score]

\* composite_risk_score in millionths of a point; anomaly (the anomaly in
\* degrees, from which compute_temperature_score derives the z-score
\* anomaly / 3 and the slope anomaly / 7) and water_temp in tenths
composite_risk_score(anomaly, water_temp) ==
    LET anomaly_score == Min2(40000000, NDiv(Abs(anomaly) * 2000000, 3))
        trend_score   == IF anomaly > 0
                         THEN Min2(20000000, NDiv(anomaly * 2000000, 7))
                         ELSE 0
        wt_score      == 40 * DecDiv(ONE14,
                                     ONE14 + Exp14(-30000 * (water_temp - 250)))
    IN  Clip(anomaly_score + trend_score + wt_score, 0, 100000000)

\* compute_temperature_score
compute_temperature_score(temp_features) ==
    LET water_temp == GetField(temp_features, "water_temp", 200)
        anomaly    == GetField(temp_features, "temp_anomaly_c", 0)
        diurnal    == GetField(temp_features, "diurnal_range", 80)
    IN  IF None \in {water_temp, anomaly, diurnal} THEN TypeError
        ELSE LET base_score    == composite_risk_score(Val(anomaly),
                                                       Val(water_temp))
                 diurnal_bonus == Clip((120 - Val(diurnal)) * 150000, 0,
                                       15000000)
             IN  Returned(RoundDiv(Clip(base_score + diurnal_bonus, 0,
                                        100000000), 100000))

\* compute_nutrient_score
compute_nutrient_score(nutrient_features) ==
    LET ag      == GetField(nutrient_features, "agricultural_pct", 0)
        urban   == GetField(nutrient_features, "urban_pct", 0)
        forest  == GetField(nutrient_features, "forest_pct", 0)
        wetland == GetField(nutrient_features, "wetland_pct", 0)
    IN  IF None \in {ag, urban, forest, wetland} THEN TypeError
        ELSE LET ag_score    == Clip(12 * Val(ag), 0, 500)
                 urban_score == Clip(15 * Val(urban), 0, 300)
                 buffer_reduction ==
                     Clip(3 * (Val(forest) + Val(wetland)), 0, 200)
             IN  Returned(Clip(ag_score + urban_score - buffer_reduction, 0,
                               1000))

\* wind_mixing_score, in thousandths of a point
wind_mixing_score(wind_7d_avg) ==
    IF wind_7d_avg <= 10 THEN 100000
    ELSE IF wind_7d_avg >= 50 THEN 0
    ELSE 2500 * (50 - wind_7d_avg)

\* hydrological_stagnation, in thousandths of a point
hydrological_stagnation(rainfall_deficit_30d) ==
    IF rainfall_deficit_30d <= 0 THEN 0
    ELSE IF rainfall_deficit_30d >= 100 THEN 100000
    ELSE 1000 * rainfall_deficit_30d

\* stratification_proxy, in thousandths of a point
stratification_proxy(diurnal_temp_range, water_temp_est) ==
    LET dtr_score  == Clip(600 * diurnal_temp_range, 0, 60000)
        temp_score == Clip(NDiv(4000 * water_temp_est, 30), 0, 40000)
    IN  dtr_score + temp_score

\* stagnation_score with combined_stagnation_index, in ten-thousandths
sf_stagnation_score(wind_7d_avg, rainfall_deficit_30d, diurnal_temp_range, water_temp_est) ==
    Clip(4 * wind_mixing_score(wind_7d_avg)
         + 3 * hydrological_stagnation(rainfall_deficit_30d)
         + 3 * stratification_proxy(diurnal_temp_range, water_temp_est),
         0, 1000000)

\* compute_stagnation_score
compute_stagnation_score(stag_features) ==
    LET wind       == GetField(stag_features, "avg_wind_7d", 100)
        deficit    == GetField(stag_features, "rainfall_deficit_30d", 0)
        diurnal    == GetField(stag_features, "diurnal_range", 80)
        water_temp == GetField(stag_features, "water_temp", 200)
    IN  IF None \in {wind, deficit, diurnal, water_temp} THEN TypeError
        ELSE Returned(RoundDiv(sf_stagnation_score(Val(wind), Val(deficit),
                                                   Val(diurnal),
                                                   Val(water_temp)), 1000))

\* light_model.compute_light_score on a dict that may lack fields
compute_light_score_of(light_features) ==
    LET uv    == GetField(light_features, "uv_index", 30)
        cloud == GetField(light_features, "cloud_cover", 50)
        lat   == GetField(light_features, "latitude", 45)
        doy   == GetField(light_features, "day_of_year", 180)
    IN  IF None \in {uv, cloud, lat, doy} THEN TypeError
        ELSE Returned(compute_light_score(
                          [uv_index |-> Val(uv), cloud_cover |-> Val(cloud),
                           latitude |-> Val(lat), day_of_year |-> Val(doy)]))

\* the default of each field of each sub-scorer
ScorerDefaults ==
    [temperature |-> [water_temp |-> 200, temp_anomaly_c |-> 0,
                      diurnal_range |-> 80],
     nutrients   |-> [agricultural_pct |-> 0, urban_pct |-> 0,
                      forest_pct |-> 0, wetland_pct |-> 0],
     stagnation  |-> [avg_wind_7d |-> 100, rainfall_deficit_30d |-> 0,
                      diurnal_range |-> 80, water_temp |-> 200],
     light       |-> [uv_index |-> 30, cloud_cover |-> 50, latitude |-> 45,
                      day_of_year |-> 180]]

\* the call of a sub-scorer by its name
SubScore(scorer, features) ==
    CASE scorer = "temperature" -> compute_temperature_score(features)
      [] scorer = "nutrients"   -> compute_nutrient_score(features)
      [] scorer = "stagnation"  -> compute_stagnation_score(features)
      [] scorer = "light"       -> compute_light_score_of(features)

\* complete feature dicts: values inside and outside the usual ranges
FullFeatures(scorer) ==
    CASE scorer = "temperature" ->
             [water_temp : {Some(0), Some(200), Some(250), Some(320)},
              temp_anomaly_c : {Some(-60), Some(0), Some(25), Some(90)},
              diurnal_range : {Some(0), Some(80), Some(150)}]
      [] scorer = "nutrients" ->
             [agricultural_pct : {Some(-5), Some(30), Some(100)},
              urban_pct : {Some(0), Some(15), Some(100)},
              forest_pct : {Some(0), Some(40)},
              wetland_pct : {Some(0), Some(50)}]
      [] scorer = "stagnation" ->
             [avg_wind_7d : {Some(0), Some(10), Some(25), Some(120)},
              rainfall_deficit_30d : {Some(-20), Some(50), Some(150)},
              diurnal_range : {Some(0), Some(80), Some(150)},
              water_temp : {Some(0), Some(200), Some(330)}]
      [] scorer = "light" ->
             [uv_index : {Some(0), Some(80), Some(130)},
              cloud_cover : {Some(0), Some(50), Some(100)},
              latitude : {Some(-35), Some(45)},
              day_of_year : {Some(1), Some(172)}]

\* the dict without the key
Without(d, key) == [k \in DOMAIN d \ {key} |-> d[k]]

\* the dict with None under the key
WithNull(d, key) == [d EXCEPT ![key] = None]

Scorers == {"temperature", "nutrients", "stagnation", "light"}

\* a complete dict, or one with one field absent, or one with one field None
InitScorer ==
    /\ \E scorer \in Scorers : \E d \in FullFeatures(scorer) :
           \/ sc_in = Some([scorer |-> scorer, features |-> d])
           \/ \E key \in DOMAIN d :
                  \/ sc_in = Some([scorer |-> scorer,
                                   features |-> Without(d, key)])
                  \/ sc_in = Some([scorer |-> scorer,
                                   features |-> WithNull(d, key)])
    /\ sc_out = None
    /\ RiskIdle /\ ForecastIdle /\ GrowthIdle /\ TrendIdle /\ CellsIdle /\ AlertsIdle /\ BandsIdle /\ PipelineIdle /\ HistoryIdle /\ DayIdle /\ CloudIdle /\ DataIdle /\ CyfiIdle

ComputeSubScore ==
    /\ sc_in # None
    /\ sc_out = None
    /\ sc_out' = Some(SubScore(Val(sc_in).scorer, Val(sc_in).features))
    /\ UNCHANGED <<risk_vars, forecast_vars, growth_vars, trend_vars, cells_vars, alerts_vars, bands_vars, pipeline_vars, history_vars, day_vars, cloud_vars, sc_in, data_vars, cyfi_vars>>

NextScorer == ComputeSubScore

SpecScorer == InitScorer /\ [][NextScorer]_vars

\* the dict with the default in the place of every absent or None field
Defaulted(scorer, features) ==
    [k \in DOMAIN ScorerDefaults[scorer] |->
        GetFieldOrDefault(features, k, ScorerDefaults[scorer][k])]

\* C21: each of the four sub-scorers returns a score in [0, 100] for any
\* numeric input values, and also when an input field is missing (absent or
\* None): the default of the field is then used and the call does not
\* fail.
C21_ScoreAlwaysInRange ==
    sc_out # None =>
        LET i == Val(sc_in)
            r == Val(sc_out)
        IN  /\ ~r.raised
            /\ r.score \in 0..1000
            /\ r = SubScore(i.scorer, Defaulted(i.scorer, i.features))

(***************************************************************************)
(* DataPipeline: src/data_fetch/data_pipeline.py.  One instance, on which  *)
(* fetch_all is called repeatedly; in each call every source either        *)
(* delivers or fails (the network and the files decide).  self.errors is   *)
(* modelled by its key set.                                                *)
(***************************************************************************)

\* the keys the five _fetch_* methods record their failure under
Sources == {"weather", "historical_temp", "rainfall_history", "land_use",
            "cyfi"}

\* total_sources
TotalSources == 5

\* the number of fetch_all calls on the instance
MaxFetches == 2

\* an error record that starts empty in every call
ErrorsOfThisCall(errors, failing) == failing

\* self.errors after the five fetches of a call in which the sources in
\* failing fail: each does self.errors[key] = ..., nothing is removed
RecordErrors(errors, failing) == errors \cup failing

\* the confidence tier: conf_pct = (total - failed) / total against 0.8
\* and 0.5, compared in fifths
Confidence(failed) ==
    LET ok == Max2(0, TotalSources - failed)
    IN  IF 10 * ok >= 8 * TotalSources THEN "HIGH"
        ELSE IF 10 * ok >= 5 * TotalSources THEN "MEDIUM"
        ELSE "LOW"

\* the data_quality dict of fetch_all, with the sources that failed in the
\* call
data_quality(errors, failing) ==
    LET failed == Cardinality(errors)
    IN  [confidence    |-> Confidence(failed),
         sources_ok    |-> TotalSources - failed,
         sources_total |-> TotalSources,
         errors        |-> errors,
         failing       |-> failing]

\* __init__: self.errors = {}
InitData ==
    /\ dp_errors = {}
    /\ dp_results = <<>>
    /\ RiskIdle /\ ForecastIdle /\ GrowthIdle /\ TrendIdle /\ CellsIdle /\ AlertsIdle /\ BandsIdle /\ PipelineIdle /\ HistoryIdle /\ DayIdle /\ CloudIdle /\ ScorerIdle /\ CyfiIdle

\* fetch_all
FetchAll ==
    /\ Len(dp_results) < MaxFetches
    /\ \E failing \in SUBSET Sources :
           /\ dp_errors' = RecordErrors(dp_errors, failing)
           /\ dp_results' = Append(dp_results,
                                   data_quality(dp_errors', failing))
    /\ UNCHANGED <<risk_vars, forecast_vars, growth_vars, trend_vars, cells_vars, alerts_vars, bands_vars, pipeline_vars, history_vars, day_vars, cloud_vars, scorer_vars, cyfi_vars>>

NextData == FetchAll

SpecData == InitData /\ [][NextData]_vars

CACHE_TTL_SECONDS == 3600

\* the clock at construction
StartTime == 10000

\* the clock stops here
MaxTime == 15500

\* the seconds that pass between two calls: twice a step is just below,
\* exactly, or just above the TTL
TickSteps == {1799, 1801}

\* _cache_key(lat, lon, date) of two places on one date
CacheKeys == {"45.00000_-93.00000_2025-06-01", "46.00000_-93.00000_2025-06-01"}

\* the date argument
CallDate == "2025-06-01"

\* what the API can answer: no usable answer (timeout, HTTP error, body
\* without cells_per_mL), or a body with cells_per_mL and with or without
\* who_severity (None: the key is absent)
ApiAnswers ==
    {None,
     Some([cells_per_mL |-> 5000, who_severity |-> None]),
     Some([cells_per_mL |-> 30000, who_severity |-> Some("High")])}

\* a freshness test that still accepts an age of exactly the TTL
_is_cache_fresh_inclusive(timestamp, now) ==
    (now - timestamp) <= CACHE_TTL_SECONDS

\* _is_cache_fresh, with time.time() = now
_is_cache_fresh(timestamp, now) == (now - timestamp) < CACHE_TTL_SECONDS

\* _classify_who_severity
_classify_who_severity(cells_per_mL) ==
    IF cells_per_mL < 20000 THEN "Low"
    ELSE IF cells_per_mL < 100000 THEN "Moderate"
    ELSE IF cells_per_mL < 10000000 THEN "High"
    ELSE "Very High"

\* _fetch_prediction_from_api: None, or the body completed with
\* who_severity and timestamp
_fetch_prediction_from_api(answer, date) ==
    IF answer = None THEN None
    ELSE LET data == Val(answer)
         IN  Some([cells_per_mL |-> data.cells_per_mL,
                   who_severity |-> IF data.who_severity = None
                                    THEN _classify_who_severity(data.cells_per_mL)
                                    ELSE Val(data.who_severity),
                   timestamp    |-> date])

\* the three values handed back from a cached or fetched prediction
Values(p) ==
    [cells_per_mL |-> Some(p.cells_per_mL),
     who_severity |-> Some(p.who_severity),
     timestamp    |-> Some(p.timestamp)]

\* the result without data
AllNull == [cells_per_mL |-> None, who_severity |-> None, timestamp |-> None]

\* the prediction as it is stored: prediction["cache_timestamp"] = now
Stored(p, now) ==
    [cells_per_mL |-> p.cells_per_mL, who_severity |-> p.who_severity,
     timestamp |-> p.timestamp, cache_timestamp |-> now]

\* get_cyfi_prediction on the cache at time now with the API answering
\* answer: the cache afterwards, whether the API was contacted, and the
\* dict returned
get_cyfi_prediction(cache, key, date, now, answer) ==
    LET cached == IF key \in DOMAIN cache THEN Some(cache[key]) ELSE None
        fresh  == /\ cached # None
                  /\ _is_cache_fresh(Val(cached).cache_timestamp, now)
        prediction == _fetch_prediction_from_api(answer, date)
    IN  IF fresh
        THEN [cache |-> cache, contacted |-> FALSE,
              returned |-> Values(Val(cached))]
        ELSE IF prediction # None
        THEN [cache |-> [k \in DOMAIN cache \cup {key} |->
                            IF k = key THEN Stored(Val(prediction), now)
                            ELSE cache[k]],
              contacted |-> TRUE,
              returned |-> Values(Val(prediction))]
        ELSE IF cached # None
        THEN [cache |-> cache, contacted |-> TRUE,
              returned |-> Values(Val(cached))]
        ELSE [cache |-> cache, contacted |-> TRUE, returned |-> AllNull]

\* an entry an earlier process left in the cache file
OldEntry(cache_timestamp) ==
    [cells_per_mL |-> 120000, who_severity |-> "High",
     timestamp |-> CallDate, cache_timestamp |-> cache_timestamp]

\* __init__ with _load_cache: no file, or a file with an entry for the
\* first key that is expired or still fresh
InitCyfi ==
    /\ \E k \in CacheKeys :
           cy_cache \in {Some(<<>>),
                         Some([x \in {k} |-> OldEntry(0)]),
                         Some([x \in {k} |-> OldEntry(StartTime - 1800)])}
    /\ cy_now = StartTime
    /\ cy_call = None
    /\ RiskIdle /\ ForecastIdle /\ GrowthIdle /\ TrendIdle /\ CellsIdle /\ AlertsIdle /\ BandsIdle /\ PipelineIdle /\ HistoryIdle /\ DayIdle /\ CloudIdle /\ ScorerIdle /\ DataIdle

\* time passes
Wait ==
    /\ cy_cache # None
    /\ \E d \in TickSteps :
           /\ cy_now + d <= MaxTime
           /\ cy_now' = cy_now + d
    /\ UNCHANGED <<risk_vars, forecast_vars, growth_vars, trend_vars, cells_vars, alerts_vars, bands_vars, pipeline_vars, history_vars, day_vars, cloud_vars, scorer_vars, data_vars, cy_cache, cy_call>>

\* one call of get_cyfi_prediction
GetCyfiPrediction ==
    /\ cy_cache # None
    /\ \E key \in CacheKeys, answer \in ApiAnswers :
           LET r == get_cyfi_prediction(Val(cy_cache), key, CallDate, cy_now,
                                        answer)
           IN  /\ cy_cache' = Some(r.cache)
               /\ cy_call' = Some([key |-> key, answer |-> answer,
                                    now |-> cy_now, before |-> Val(cy_cache),
                                    contacted |-> r.contacted,
                                    returned |-> r.returned])
    /\ UNCHANGED <<risk_vars, forecast_vars, growth_vars, trend_vars, cells_vars, alerts_vars, bands_vars, pipeline_vars, history_vars, day_vars, cloud_vars, scorer_vars, data_vars, cy_now>>

NextCyfi == Wait \/ GetCyfiPrediction

SpecCyfi == InitCyfi /\ [][NextCyfi]_vars

\* the cache held an entry for the key of the call that was younger than
\* 3600 seconds
YoungEntry(c) ==
    /\ c.key \in DOMAIN c.before
    /\ c.now - c.before[c.key].cache_timestamp < 3600

RiskResults ==
    (IF prob_out = None THEN {}
     ELSE {[risk_score |-> Val(prob_out).risk_score,
            risk_level |-> Val(prob_out).risk_level,
            who        |-> Val(prob_out).who_severity,
            cells      |-> Val(prob_out).estimated_cells_per_ml]})
    \cup
    (IF risk_out = None THEN {}
     ELSE {[risk_score |-> Val(risk_out).risk_score,
            risk_level |-> Val(risk_out).risk_level,
            who        |-> Val(risk_out).who_level,
            cells      |-> Val(risk_out).estimated_cells_per_ml]})

\* C2: the risk_level either aggregator returns is the band of the
\* risk_score it returns: SAFE iff score < 25, LOW iff 25 <= score < 50,
\* WARNING iff 50 <= score < 75, CRITICAL iff score >= 75.
C2_RiskLevelIsBand ==
    \A r \in RiskResults :
        /\ r.risk_level \in {"SAFE", "LOW", "WARNING", "CRITICAL"}
        /\ (r.risk_level = "SAFE") <=> (r.risk_score < 250)
        /\ (r.risk_level = "LOW") <=> (250 <= r.risk_score /\ r.risk_score < 500)
        /\ (r.risk_level = "WARNING") <=> (500 <= r.risk_score /\ r.risk_score < 750)
        /\ (r.risk_level = "CRITICAL") <=> (r.risk_score >= 750)

\* C2 witness: the weighted sum lands exactly on 25.0 and is LOW, and the
\* geometric mean of the same call lands in another band
C2_Witness ==
    /\ prob_out # None /\ risk_out # None
    /\ Val(prob_out).risk_score = 250
    /\ Val(prob_out).risk_level = "LOW"
    /\ Val(risk_out).risk_level = "SAFE"

\* C3: the WHO severity of a result is decided by its estimated cells alone,
\* at the breakpoints 20,000 / 100,000 / 10,000,000; and two results with
\* the same risk_score agree on risk_level, cells and WHO severity.
C3_WhoSeverityOfCells ==
    /\ \A r \in RiskResults :
        /\ (r.who = "low_risk") <=> (r.cells < 20000)
        /\ (r.who = "moderate_risk") <=> (20000 <= r.cells /\ r.cells < 100000)
        /\ (r.who = "high_risk") <=> (100000 <= r.cells /\ r.cells < 10000000)
        /\ (r.who = "very_high_risk") <=> (r.cells >= 10000000)
    /\ \A r1, r2 \in RiskResults :
        r1.risk_score = r2.risk_score => r1 = r2

\* C3 witness: both aggregators ran on unequal sub-scores and returned the
\* same score, with cells between 100,000 and 10,000,000
C3_Witness ==
    /\ prob_out # None /\ risk_out # None
    /\ Val(agg_in).t # Val(agg_in).n
    /\ Val(prob_out).risk_score = Val(risk_out).risk_score
    /\ Val(prob_out).estimated_cells_per_ml >= 100000
    /\ Val(risk_out).who_level = "high_risk"

\* C4: for any sub-scores, growth rate and satellite count the risk_score of
\* both aggregators lies in [0, 100].
C4_RiskScoreInRange ==
    \A r \in RiskResults : 0 <= r.risk_score /\ r.risk_score <= 1000

\* C4 witness: sub-scores above 100 with the largest satellite adjustment:
\* the weighted sum is clamped to 100
C4_Witness ==
    /\ prob_out # None
    /\ Val(agg_in).t > 1000 /\ Val(agg_in).n > 1000
    /\ Val(agg_in).s > 1000 /\ Val(agg_in).l > 1000
    /\ Val(agg_in).cyfi = Some(100001)
    /\ Val(prob_out).risk_score = 1000

\* C5: calculate_bloom_risk adds 0.10 x min(temperature, nutrient) exactly
\* when both scores are strictly above 60, nothing otherwise, and the score
\* before the clamp is the geometric mean plus that boost.
C5_InteractionBoost ==
    risk_out # None =>
        LET a == Val(agg_in)
            r == Val(risk_out)
        IN  /\ (a.t > 600 /\ a.n > 600) =>
                   r.interaction_boost = 10 * Min2(a.t, a.n)
            /\ ~(a.t > 600 /\ a.n > 600) => r.interaction_boost = 0
            /\ r.pre_clamp = r.geo_mean + r.interaction_boost
            /\ r.risk_score = Round1(Clip(r.pre_clamp, 0, 100000))

\* C5 witness: 70 / 70 gives a boost of 7.0 points
C5_Witness ==
    /\ risk_out # None
    /\ Val(agg_in).t = 700 /\ Val(agg_in).n = 700
    /\ Val(risk_out).interaction_boost = 7000
    /\ Val(risk_out).pre_clamp > Val(risk_out).geo_mean

====
